---- MODULE Spec2Model ----
(***************************************************************************)
(* Model of the openclaw mirror daemon.                                    *)
(*                                                                         *)
(*   - the turn-flag daemon, src/mirror_daemon.js (SpecTurn, SpecPoll)     *)
(*   - the run-correlation daemon, src/unnamed/part_001 lines 116-424      *)
(*     (SpecRun)                                                           *)
(*                                                                         *)
(* Text is a sequence of one-character strings, so that includes(),        *)
(* startsWith(), trim() and the regular expressions of the source are      *)
(* computed character by character.  A JavaScript value is a record with   *)
(* a tag t.  A string whose text is the JSON serialisation of a value v is *)
(* JStr(v); JSON.parse gives v back for it and throws for a Str, whose     *)
(* characters are then text that is not JSON.                              *)
(***************************************************************************)
EXTENDS Integers, Sequences, FiniteSets, TLC

\* ------------------------------------------------------------------ text

WS == {" ", "\n", "\t", "\r"}

Lower == {"a","b","c","d","e","f","g","h","i","j","k","l","m",
          "n","o","p","q","r","s","t","u","v","w","x","y","z"}

Upper == {"A","B","C","D","E","F","G","H","I","J","K","L","M",
          "N","O","P","Q","R","S","T","U","V","W","X","Y","Z"}

Digit == {"0","1","2","3","4","5","6","7","8","9"}

\* String.prototype.startsWith, at offset i (1-based)
StartsAt(s, p, i) ==
    /\ i + Len(p) - 1 <= Len(s)
    /\ \A k \in 1..Len(p) : s[i + k - 1] = p[k]

StartsWith(s, p) == StartsAt(s, p, 1)

\* String.prototype.includes
Includes(s, p) == \E i \in 1..(Len(s) + 1) : StartsAt(s, p, i)

\* String.prototype.indexOf, 1-based; 0 when absent
IndexFrom(s, p, from) ==
    LET hits == {i \in from..(Len(s) + 1) : StartsAt(s, p, i)}
    IN IF hits = {} THEN 0 ELSE CHOOSE i \in hits : \A j \in hits : i <= j

\* String.prototype.trim
Trim(s) ==
    LET nws == {i \in 1..Len(s) : s[i] \notin WS}
    IN IF nws = {} THEN <<>>
       ELSE SubSeq(s, CHOOSE i \in nws : \A j \in nws : i <= j,
                      CHOOSE i \in nws : \A j \in nws : i >= j)

\* String.prototype.substring(0, n)
Substring0(s, n) == IF Len(s) > n THEN SubSeq(s, 1, n) ELSE s

\* Array.prototype.join for an array of texts
RECURSIVE Join(_, _)
Join(parts, sep) ==
    IF Len(parts) = 0 THEN <<>>
    ELSE IF Len(parts) = 1 THEN parts[1]
    ELSE parts[1] \o sep \o Join(Tail(parts), sep)

\* ------------------------------------------------------------ JS values

Undef == [t |-> "undef"]

Null == [t |-> "null"]

Num(n) == [t |-> "num", n |-> n]

Str(s) == [t |-> "str", s |-> s]

JStr(v) == [t |-> "jstr", v |-> v]

Arr(a) == [t |-> "arr", a |-> a]

Obj(f) == [t |-> "obj", f |-> f]

IsString(v) == v.t \in {"str", "jstr"}

\* ToBoolean: undefined, null, "" and 0 are falsy
Truthy(v) ==
    CASE v.t = "undef" -> FALSE
      [] v.t = "null"  -> FALSE
      [] v.t = "str"   -> Len(v.s) > 0
      [] v.t = "num"   -> v.n # 0
      [] OTHER         -> TRUE

\* property read v[k]; reading a property of null or undefined throws
CanRead(v) == v.t \notin {"undef", "null"}

\* the array index a property key denotes (1-based), 0 for a name
Index(k) == IF k = "0" THEN 1 ELSE IF k = "1" THEN 2 ELSE 0

Get(v, k) ==
    IF v.t = "obj" THEN (IF k \in DOMAIN v.f THEN v.f[k] ELSE Undef)
    ELSE IF v.t = "arr" /\ Index(k) \in 1..Len(v.a) THEN v.a[Index(k)]
    ELSE IF v.t = "str" /\ Index(k) \in 1..Len(v.s) THEN Str(<<v.s[Index(k)]>>)
    ELSE Undef

\* JSON.parse
ParseOk(v) == v.t = "jstr"

ParseValue(v) == v.v

\* !line.trim() for a string line
BlankLine(v) == v.t = "str" /\ Trim(v.s) = <<>>

\* ------------------------------------- turn-flag daemon: mirror_daemon.js

MIRROR_TAG == <<"[","m","i","r","r","o","r","e","d","]">>

CACHE_SIZE == 50

maxLen == 3900

TruncationMarker ==
    <<"\n","\n","[",".",".",".","t","r","u","n","c","a","t","e","d","]">>

S_text == <<"t","e","x","t">>

S_user == <<"u","s","e","r">>

S_assistant == <<"a","s","s","i","s","t","a","n","t">>

HexDash == {"a","b","c","d","e","f","-"} \cup Digit

UuidLen == 36

\* /[a-f0-9-]{36}/.test(id)
UuidTest(id) ==
    \E i \in 1..(Len(id) - UuidLen + 1) :
        \A k \in 0..(UuidLen - 1) : id[i + k] \in HexDash

S_message_id == <<"m","e","s","s","a","g","e","_","i","d",":">>

S_bracket_message_id == <<"[">> \o S_message_id

\* text.match(/\[message_id:\s*([^\]]+)\]/): the capture group, or <<>> for
\* no match.  The group runs to the first "]" after the token; \s* is greedy
\* but gives one character back when it would leave the group empty.
RECURSIVE MessageIdMatch(_, _)
MessageIdMatch(s, from) ==
    LET i == IndexFrom(s, S_bracket_message_id, from)
        b == i + Len(S_bracket_message_id)
        close == IndexFrom(s, <<"]">>, b)
    IN IF i = 0 \/ close = 0 THEN <<>>
       ELSE IF close = b THEN MessageIdMatch(s, i + 1)
       ELSE LET body == SubSeq(s, b, close - 1)
                nws == {k \in 1..Len(body) : body[k] \notin WS}
            IN IF nws = {} THEN <<body[Len(body)]>>
               ELSE SubSeq(body,
                           CHOOSE k \in nws : \A j \in nws : k <= j,
                           Len(body))

\* isWebchatUserMessage without the '[Queued' exclusion
isWebchatUserMessage_noQueued(text) ==
    IF ~Truthy(text) \/ text.t # "str" THEN FALSE
    ELSE IF StartsWith(text.s, <<"[","T","e","l","e","g","r","a","m">>) THEN FALSE
    ELSE IF StartsWith(text.s, <<"S","y","s","t","e","m",":">>) THEN FALSE
    ELSE IF StartsWith(text.s, <<"[","A","u","d","i","o","]">>) THEN FALSE
    ELSE IF ~Includes(text.s, S_message_id) THEN FALSE
    ELSE LET match == MessageIdMatch(text.s, 1)
         IN IF match = <<>> THEN FALSE
            ELSE UuidTest(Trim(match))

\* isWebchatUserMessage that tests the id before the prefixes
isWebchatUserMessage_idFirst(text) ==
    IF ~Truthy(text) \/ text.t # "str" THEN FALSE
    ELSE IF ~Includes(text.s, S_message_id) THEN FALSE
    ELSE LET match == MessageIdMatch(text.s, 1)
         IN IF match # <<>> /\ UuidTest(Trim(match)) THEN TRUE
            ELSE FALSE

isWebchatUserMessage(text) ==
    IF ~Truthy(text) \/ text.t # "str" THEN FALSE
    ELSE IF StartsWith(text.s, <<"[","T","e","l","e","g","r","a","m">>) THEN FALSE
    ELSE IF StartsWith(text.s, <<"S","y","s","t","e","m",":">>) THEN FALSE
    ELSE IF StartsWith(text.s, <<"[","Q","u","e","u","e","d">>) THEN FALSE
    ELSE IF StartsWith(text.s, <<"[","A","u","d","i","o","]">>) THEN FALSE
    ELSE IF ~Includes(text.s, S_message_id) THEN FALSE
    ELSE LET match == MessageIdMatch(text.s, 1)
         IN IF match = <<>> THEN FALSE
            ELSE UuidTest(Trim(match))

\* one part of an assistant content array: "skip", "take" or "throw"
\* (part.text.trim is not a function when part.text is truthy and no string)
PartKind(part) ==
    IF ~Truthy(part) THEN "skip"
    ELSE IF Get(part, "type") # Str(S_text) THEN "skip"
    ELSE IF ~Truthy(Get(part, "text")) THEN "skip"
    ELSE IF Get(part, "text").t # "str" THEN "throw"
    ELSE IF Trim(Get(part, "text").s) = <<>> THEN "skip"
    ELSE "take"

\* extractAssistantText that joins the texts with one newline
extractAssistantText_oneNewline(content) ==
    IF content.t # "arr" THEN [threw |-> FALSE, text |-> Null]
    ELSE LET a == content.a
             firstThrow == {i \in 1..Len(a) : PartKind(a[i]) = "throw"}
             texts == [i \in 1..Len(a) |->
                          IF PartKind(a[i]) = "take"
                          THEN Trim(Get(a[i], "text").s) ELSE <<>>]
             kept == SelectSeq(texts, LAMBDA x : x # <<>>)
         IN IF firstThrow # {} THEN [threw |-> TRUE, text |-> Null]
            ELSE IF Len(kept) > 0
                 THEN [threw |-> FALSE, text |-> Str(Join(kept, <<"\n">>))]
                 ELSE [threw |-> FALSE, text |-> Null]

\* extractAssistantText: [threw, text], text a Str or Null
extractAssistantText(content) ==
    IF content.t # "arr" THEN [threw |-> FALSE, text |-> Null]
    ELSE LET a == content.a
             firstThrow == {i \in 1..Len(a) : PartKind(a[i]) = "throw"}
             texts == [i \in 1..Len(a) |->
                          IF PartKind(a[i]) = "take"
                          THEN Trim(Get(a[i], "text").s) ELSE <<>>]
             kept == SelectSeq(texts, LAMBDA x : x # <<>>)
         IN IF firstThrow # {} THEN [threw |-> TRUE, text |-> Null]
            ELSE IF Len(kept) > 0
                 THEN [threw |-> FALSE, text |-> Str(Join(kept, <<"\n","\n">>))]
                 ELSE [threw |-> FALSE, text |-> Null]

\* the text of a user turn as processLine computes it
UserText(content) ==
    IF content.t = "arr" /\ Len(content.a) > 0
    THEN LET first == content.a[1]
         IN IF Truthy(first) /\ first.t \in {"obj", "arr"}
            THEN (IF Truthy(Get(first, "text")) THEN Get(first, "text") ELSE Str(<<>>))
            ELSE (IF Truthy(first) THEN first ELSE Str(<<>>))
    ELSE IF IsString(content) THEN content
    ELSE Str(<<>>)

\* the grave accent U+0060, which a string literal of the module cannot hold
GraveAccent == "grave"

\* sendText.replace(/"/g, '\\"').replace(/\$/g, '\\$') and the same for the
\* grave accent
\* (global replacements: each character is replaced on its own, so the text
\* may be treated by halves)
RECURSIVE Escape(_)
Escape(s) ==
    IF Len(s) = 0 THEN <<>>
    ELSE IF Len(s) = 1
    THEN (IF s[1] \in {"\"", "$", GraveAccent} THEN <<"\\", s[1]>> ELSE s)
    ELSE Escape(SubSeq(s, 1, Len(s) \div 2))
         \o Escape(SubSeq(s, (Len(s) \div 2) + 1, Len(s)))

\* the truncation with >= in the place of >
Truncate_atLimit(s) ==
    IF Len(s) >= maxLen THEN Substring0(s, maxLen - 1) \o TruncationMarker ELSE s

Truncate(s) ==
    IF Len(s) > maxLen THEN Substring0(s, maxLen) \o TruncationMarker ELSE s

\* the --message argument without the tag
Message_noTag(s) == Escape(Truncate(s))

\* the --message argument built by sendToTelegram
Message(s) == MIRROR_TAG \o <<" ">> \o Escape(Truncate(s))

\* CacheAdd that never evicts
CacheAdd_noEviction(cache, x, bound) ==
    LET added == IF \E i \in 1..Len(cache) : cache[i] = x
                 THEN cache ELSE Append(cache, x)
    IN added

\* CacheAdd that evicts the entry just added
CacheAdd_evictNewest(cache, x, bound) ==
    LET added == IF \E i \in 1..Len(cache) : cache[i] = x
                 THEN cache ELSE Append(cache, x)
    IN IF Len(added) > bound THEN SubSeq(added, 1, Len(added) - 1) ELSE added

\* CacheAdd that evicts as soon as the bound is reached
CacheAdd_evictAtBound(cache, x, bound) ==
    LET added == IF \E i \in 1..Len(cache) : cache[i] = x
                 THEN cache ELSE Append(cache, x)
    IN IF Len(added) >= bound THEN Tail(added) ELSE added

\* Set.add followed by the eviction of the first entry above the bound
CacheAdd(cache, x, bound) ==
    LET added == IF \E i \in 1..Len(cache) : cache[i] = x
                 THEN cache ELSE Append(cache, x)
    IN IF Len(added) > bound THEN Tail(added) ELSE added

CacheHas(cache, x) == \E i \in 1..Len(cache) : cache[i] = x

\* one execSync call of sendToTelegram: the text, the --message argument,
\* the outcome, and whether the text is in the cache when the call is made
Call(text, ok, cacheAtCall) ==
    [text |-> text, message |-> Message(text), ok |-> ok,
     cached |-> CacheHas(cacheAtCall, text)]

\* the cache with x removed
Without(cache, x) == SelectSeq(cache, LAMBDA y : y # x)

\* sendToTelegram that makes a text found in the cache its newest entry
sendToTelegram_refreshOnHit(cache, text, ok) ==
    IF ~Truthy(text) THEN [cache |-> cache, out |-> <<>>]
    ELSE IF CacheHas(cache, text.s)
    THEN [cache |-> Append(Without(cache, text.s), text.s), out |-> <<>>]
    ELSE LET added == CacheAdd(cache, text.s, CACHE_SIZE)
         IN [cache |-> added, out |-> <<Call(text.s, ok, added)>>]

\* sendToTelegram without the test mirroredCache.has(text)
sendToTelegram_noCacheTest(cache, text, ok) ==
    IF ~Truthy(text)
    THEN [cache |-> cache, out |-> <<>>]
    ELSE LET added == CacheAdd(cache, text.s, CACHE_SIZE)
         IN [cache |-> added, out |-> <<Call(text.s, ok, added)>>]

\* sendToTelegram that calls execSync first and adds the text to the cache
\* when the call returns
sendToTelegram_sendThenCache(cache, text, ok) ==
    IF ~Truthy(text) \/ CacheHas(cache, text.s)
    THEN [cache |-> cache, out |-> <<>>]
    ELSE LET added == CacheAdd(cache, text.s, CACHE_SIZE)
         IN [cache |-> IF ok THEN added ELSE cache,
             out |-> <<Call(text.s, ok, cache)>>]

\* sendToTelegram that calls execSync a second time when the first call fails
sendToTelegram_retryOnFailure(cache, text, ok) ==
    IF ~Truthy(text) \/ CacheHas(cache, text.s)
    THEN [cache |-> cache, out |-> <<>>]
    ELSE LET added == CacheAdd(cache, text.s, CACHE_SIZE)
         IN [cache |-> added,
             out |-> IF ok THEN <<Call(text.s, ok, added)>>
                     ELSE <<Call(text.s, FALSE, added), Call(text.s, TRUE, added)>>]

\* sendToTelegram(text): the cache afterwards and the execSync calls made;
\* ok is the outcome of execSync (exit status 0, or a failure or timeout,
\* which is caught and logged)
sendToTelegram(cache, text, ok) ==
    IF ~Truthy(text) \/ CacheHas(cache, text.s)
    THEN [cache |-> cache, out |-> <<>>]
    ELSE LET added == CacheAdd(cache, text.s, CACHE_SIZE)
         IN [cache |-> added, out |-> <<Call(text.s, ok, added)>>]

\* the outcome of processLine(line) from the state (prev, cache)
Result(threw, prev, cache, out) ==
    [threw |-> threw, prev |-> prev, cache |-> cache, out |-> out]

\* The part of processLine that does not depend on the state: what the
\* line is ("throw" when reading it throws, "skip" when processLine returns
\* at once, else the role), the flag a user turn sets and the text an
\* assistant turn carries.  It is computed once for each line.
Parsed(what, webchat, extract) ==
    [what |-> what, webchat |-> webchat, extract |-> extract]

NoText == [threw |-> FALSE, text |-> Null]

ParseTurnLine(line) ==
    IF ~IsString(line) THEN Parsed("throw", FALSE, NoText)
    ELSE IF BlankLine(line) THEN Parsed("skip", FALSE, NoText)
    ELSE IF ~ParseOk(line) THEN Parsed("skip", FALSE, NoText)
    ELSE LET entry == ParseValue(line)
             msg == Get(entry, "message")
             role == Get(msg, "role")
             content == Get(msg, "content")
         IN IF ~CanRead(entry) THEN Parsed("throw", FALSE, NoText)
            ELSE IF ~Truthy(msg) THEN Parsed("skip", FALSE, NoText)
            ELSE IF role = Str(S_user)
            THEN Parsed("user", isWebchatUserMessage(UserText(content)), NoText)
            ELSE IF role = Str(S_assistant)
            THEN Parsed("assistant", FALSE, extractAssistantText(content))
            ELSE Parsed("skip", FALSE, NoText)

\* processLine out of which the error of a failed send propagates
processLine_sendThrows(prev, cache, p, ok) ==
    IF p.what = "throw" THEN Result(TRUE, prev, cache, <<>>)
    ELSE IF p.what = "user" THEN Result(FALSE, p.webchat, cache, <<>>)
    ELSE IF p.what = "assistant" /\ prev
    THEN LET snd == sendToTelegram(cache, p.extract.text, ok)
         IN IF p.extract.threw THEN Result(TRUE, prev, cache, <<>>)
            ELSE IF Truthy(p.extract.text)
            THEN Result(snd.out # <<>> /\ ~ok, prev, snd.cache, snd.out)
            ELSE Result(FALSE, prev, cache, <<>>)
    ELSE Result(FALSE, prev, cache, <<>>)

\* processLine with the flag cleared by every assistant turn
processLine_resetOnAssistant(prev, cache, p, ok) ==
    IF p.what = "throw" THEN Result(TRUE, prev, cache, <<>>)
    ELSE IF p.what = "user" THEN Result(FALSE, p.webchat, cache, <<>>)
    ELSE IF p.what = "assistant" /\ prev
    THEN LET snd == sendToTelegram(cache, p.extract.text, ok)
         IN IF p.extract.threw THEN Result(TRUE, prev, cache, <<>>)
            ELSE IF Truthy(p.extract.text)
            THEN Result(FALSE, FALSE, snd.cache, snd.out)
            ELSE Result(FALSE, FALSE, cache, <<>>)
    ELSE Result(FALSE, prev, cache, <<>>)

\* processLine, on the line as ParseTurnLine read it
processLine(prev, cache, p, ok) ==
    IF p.what = "throw" THEN Result(TRUE, prev, cache, <<>>)
    ELSE IF p.what = "user" THEN Result(FALSE, p.webchat, cache, <<>>)
    ELSE IF p.what = "assistant" /\ prev
    THEN LET snd == sendToTelegram(cache, p.extract.text, ok)
         IN IF p.extract.threw THEN Result(TRUE, prev, cache, <<>>)
            ELSE IF Truthy(p.extract.text)
            THEN Result(FALSE, prev, snd.cache, snd.out)
            ELSE Result(FALSE, prev, cache, <<>>)
    ELSE Result(FALSE, prev, cache, <<>>)

\* the text of a user turn as the initial scan of watchSession computes it
ScanText(content) ==
    IF content.t = "arr" /\ Len(content.a) > 0
    THEN LET first == content.a[1]
         IN IF Truthy(first) /\ first.t \in {"obj", "arr"}
            THEN (IF Truthy(Get(first, "text")) THEN Get(first, "text") ELSE Str(<<>>))
            ELSE (IF Truthy(first) THEN first ELSE Str(<<>>))
    ELSE Str(<<>>)

\* one line of the initial scan of watchSession: whether the scan stops at
\* it (a user turn) and the flag it then sets; a TypeError is caught
ParseScanLine(line) ==
    LET entry == ParseValue(line)
        msg == Get(entry, "message")
    IN IF BlankLine(line) \/ ~ParseOk(line) THEN [isUser |-> FALSE, webchat |-> FALSE]
       ELSE IF ~CanRead(entry) THEN [isUser |-> FALSE, webchat |-> FALSE]
       ELSE IF Truthy(msg) /\ Get(msg, "role") = Str(S_user)
       THEN [isUser |-> TRUE,
             webchat |-> isWebchatUserMessage(ScanText(Get(msg, "content")))]
       ELSE [isUser |-> FALSE, webchat |-> FALSE]

\* the initial scan: the flag of the last user turn among the first i lines
RECURSIVE InitialScan(_, _)
InitialScan(lines, i) ==
    IF i = 0 THEN FALSE
    ELSE IF lines[i].scan.isUser THEN lines[i].scan.webchat
    ELSE InitialScan(lines, i - 1)

\* the loop of processFile over lines[i..n]: the state after the last call
\* of processLine, the sends made, the lines passed to processLine and
\* whether a call threw, which ends the loop
RECURSIVE ProcessLines(_, _, _, _, _, _, _)
ProcessLines(prev, cache, lines, i, ok, out, done) ==
    IF i > Len(lines)
    THEN [threw |-> FALSE, prev |-> prev, cache |-> cache, out |-> out,
          delivered |-> done]
    ELSE LET r == processLine(prev, cache, lines[i].p, ok)
         IN IF r.threw
            THEN [threw |-> TRUE, prev |-> r.prev, cache |-> r.cache,
                  out |-> out \o r.out, delivered |-> Append(done, i)]
            ELSE ProcessLines(r.prev, r.cache, lines, i + 1, ok,
                              out \o r.out, Append(done, i))

\* processFile(filePath) on the lines data.split('\n') yields, from the
\* state (lastLineCount, prev, cache): lastLineCount is only assigned when
\* the loop ends without an exception
processFile(count, prev, cache, lines, ok) ==
    LET r == ProcessLines(prev, cache, lines, count + 1, ok, <<>>, <<>>)
    IN IF Len(lines) > count
       THEN [count |-> IF r.threw THEN count ELSE Len(lines),
             threw |-> r.threw, prev |-> r.prev, cache |-> r.cache,
             out |-> r.out, delivered |-> r.delivered]
       ELSE [count |-> count, threw |-> FALSE, prev |-> prev, cache |-> cache,
             out |-> <<>>, delivered |-> <<>>]

\* ------------------------- run-correlation daemon: unnamed/part_001:116

PROCESSED_RUNS_MAX == 100

S_agent_embedded ==
    <<"a","g","e","n","t","/","e","m","b","e","d","d","e","d">>

S_webchat ==
    <<"w","e","b","c","h","a","t">>

S_telegram ==
    <<"t","e","l","e","g","r","a","m">>

S_heartbeat ==
    <<"h","e","a","r","t","b","e","a","t">>

S_run_done ==
    <<"e","m","b","e","d","d","e","d"," ","r","u","n"," ","d","o","n","e",
      ":">>

S_run_start ==
    <<"e","m","b","e","d","d","e","d"," ","r","u","n"," ","s","t","a","r",
      "t",":">>

S_sessionId ==
    <<"s","e","s","s","i","o","n","I","d","=">>

S_runId ==
    <<"r","u","n","I","d","=">>

S_messageChannel ==
    <<"m","e","s","s","a","g","e","C","h","a","n","n","e","l","=">>

S_message ==
    <<"m","e","s","s","a","g","e">>

IdChar(c) == c \in Lower \cup Upper \cup Digit \cup {"_", "-"}

NonSpace(c) == c \notin WS

\* membership in the character class of a pattern: [a-zA-Z0-9_-] or \S
InClass(c, class) == IF class = "id" THEN IdChar(c) ELSE NonSpace(c)

\* msg.match(/key(C+)/): the capture group of the leftmost match, <<>> for
\* no match; class names the character class C
MatchAfter(msg, key, class) ==
    LET hits == {i \in 1..Len(msg) :
                    /\ StartsAt(msg, key, i)
                    /\ i + Len(key) <= Len(msg)
                    /\ InClass(msg[i + Len(key)], class)}
    IN IF hits = {} THEN <<>>
       ELSE LET b == (CHOOSE i \in hits : \A j \in hits : i <= j) + Len(key)
                stop == {j \in b..Len(msg) : ~InClass(msg[j], class)}
            IN SubSeq(msg, b,
                      IF stop = {} THEN Len(msg)
                      ELSE (CHOOSE j \in stop : \A k \in stop : j <= k) - 1)

\* parseSubsystem(entry): the subsystem, or Null
parseSubsystem(entry) ==
    LET field0 == IF Truthy(entry) THEN Get(entry, "0") ELSE entry
    IN IF ~Truthy(field0) \/ ~IsString(field0) THEN Null
       ELSE IF ~ParseOk(field0) THEN Null
       ELSE IF ~CanRead(ParseValue(field0)) THEN Null
       ELSE IF Truthy(Get(ParseValue(field0), "subsystem"))
            THEN Get(ParseValue(field0), "subsystem")
            ELSE Null

NoInfo == [ok |-> FALSE, sessionId |-> <<>>, runId |-> <<>>, messageChannel |-> <<>>]

\* the common part of parseRunStart and parseWebchatRunDone: the message
\* text entry['1'] of an agent/embedded entry, or <<>>
EmbeddedMessage(line) ==
    IF ~Truthy(line) \/ BlankLine(line) THEN <<>>
    ELSE IF ~ParseOk(line) THEN <<>>
    ELSE IF parseSubsystem(ParseValue(line)) # Str(S_agent_embedded) THEN <<>>
    ELSE IF Get(ParseValue(line), "1").t # "str" THEN <<>>
    ELSE Get(ParseValue(line), "1").s

parseWebchatRunDone(line) ==
    LET msg == EmbeddedMessage(line)
        sessionMatch == MatchAfter(msg, S_sessionId, "id")
        runMatch == MatchAfter(msg, S_runId, "id")
    IN IF ~Includes(msg, S_run_done) THEN NoInfo
       ELSE IF sessionMatch = <<>> \/ runMatch = <<>> THEN NoInfo
       ELSE [ok |-> TRUE, sessionId |-> sessionMatch, runId |-> runMatch,
             messageChannel |-> <<>>]

parseRunStart(line) ==
    LET msg == EmbeddedMessage(line)
        sessionMatch == MatchAfter(msg, S_sessionId, "id")
        runMatch == MatchAfter(msg, S_runId, "id")
        channelMatch == MatchAfter(msg, S_messageChannel, "nonspace")
    IN IF ~Includes(msg, S_run_start) THEN NoInfo
       ELSE IF sessionMatch = <<>> \/ runMatch = <<>> \/ channelMatch = <<>>
            THEN NoInfo
       ELSE [ok |-> TRUE, sessionId |-> sessionMatch, runId |-> runMatch,
             messageChannel |-> channelMatch]

\* the text parts of one transcript entry as getLastAssistantText takes
\* them: [skip, text]; a TypeError inside the try block skips the entry
AssistantParts(line) ==
    LET entry == ParseValue(line)
        message == Get(entry, "message")
        contentArr == Get(message, "content")
        kept == SelectSeq(contentArr.a,
                          LAMBDA c : Get(c, "type") = Str(S_text)
                                     /\ Truthy(Get(c, "text")))
        trimmed == [i \in 1..Len(kept) |-> Trim(Get(kept[i], "text").s)]
        textParts == SelectSeq(trimmed, LAMBDA x : Len(x) > 0)
    IN IF ~IsString(line) \/ BlankLine(line) \/ ~ParseOk(line) THEN <<>>
       ELSE IF ~CanRead(entry) THEN <<>>
       ELSE IF Get(entry, "type") # Str(S_message) THEN <<>>
       ELSE IF ~Truthy(message) \/ Get(message, "role") # Str(S_assistant)
            THEN <<>>
       ELSE IF contentArr.t # "arr" THEN <<>>
       ELSE IF \E i \in 1..Len(contentArr.a) : ~CanRead(contentArr.a[i])
            THEN <<>>
       ELSE IF \E i \in 1..Len(kept) : Get(kept[i], "text").t # "str"
            THEN <<>>
       ELSE textParts

\* the loop of getLastAssistantText, from line i down to the first
RECURSIVE LastTextFrom(_, _)
LastTextFrom(lines, i) ==
    IF i = 0 THEN Null
    ELSE IF Len(AssistantParts(lines[i])) > 0
         THEN Str(Join(AssistantParts(lines[i]), <<"\n">>))
         ELSE LastTextFrom(lines, i - 1)

\* getLastAssistantText(sessionId), given the session file: whether it
\* exists and the lines content.trim().split('\n') yields
getLastAssistantText(file) ==
    IF ~file.exists THEN Null ELSE LastTextFrom(file.lines, Len(file.lines))

\* shouldIgnore with startsWith in place of includes
shouldIgnore_prefixOnly(text) ==
    IF ~Truthy(text) THEN TRUE
    ELSE IF StartsWith(text.s, MIRROR_TAG) THEN TRUE
    ELSE Len(Trim(text.s)) = 0

shouldIgnore(text) ==
    IF ~Truthy(text) THEN TRUE
    ELSE IF Includes(text.s, MIRROR_TAG) THEN TRUE
    ELSE Len(Trim(text.s)) = 0

\* sendToTelegram of the run-correlation daemon
Run_sendToTelegram(cache, text, ok) ==
    IF CacheHas(cache, text.s)
    THEN [cache |-> cache, out |-> <<>>]
    ELSE LET added == CacheAdd(cache, text.s, CACHE_SIZE)
         IN [cache |-> added, out |-> <<Call(text.s, ok, added)>>]

\* the setTimeout callback of processLine, given the text that
\* getLastAssistantText returns
Run_lookup(cache, text, ok) ==
    IF Truthy(text) /\ ~shouldIgnore(text)
    THEN Run_sendToTelegram(cache, text, ok)
    ELSE [cache |-> cache, out |-> <<>>]

RunResult(runs, processed, scheduled) ==
    [runs |-> runs, processed |-> processed, scheduled |-> scheduled]

\* Map.set and Map.delete on webchatRuns, a function from runId to sessionId
MapSet(m, k, v) == [x \in DOMAIN m \cup {k} |-> IF x = k THEN v ELSE m[x]]

MapDelete(m, k) == [x \in DOMAIN m \ {k} |-> m[x]]

\* The part of processLine that does not depend on the state: whether the
\* line is empty, and what parseRunStart and parseWebchatRunDone make of
\* it.  It is computed once for each line.
ParseRunLine(line) ==
    [blank |-> ~Truthy(line) \/ BlankLine(line),
     startInfo |-> parseRunStart(line),
     doneInfo |-> parseWebchatRunDone(line)]

\* processLine that tracks a run start of any channel
Run_processLine_anyChannel(runs, processed, p) ==
    IF p.blank THEN RunResult(runs, processed, <<>>)
    ELSE IF p.startInfo.ok
    THEN RunResult(MapSet(runs, p.startInfo.runId, p.startInfo.sessionId),
                   processed, <<>>)
    ELSE IF ~p.doneInfo.ok \/ p.doneInfo.runId \notin DOMAIN runs
    THEN RunResult(runs, processed, <<>>)
    ELSE IF CacheHas(processed, p.doneInfo.runId)
    THEN RunResult(MapDelete(runs, p.doneInfo.runId), processed, <<>>)
    ELSE RunResult(MapDelete(runs, p.doneInfo.runId),
                   CacheAdd(processed, p.doneInfo.runId, PROCESSED_RUNS_MAX),
                   <<[runId |-> p.doneInfo.runId,
                      sessionId |-> runs[p.doneInfo.runId]]>>)

\* processLine that takes the session of an untracked run from its done line
Run_processLine_untrackedDone(runs, processed, p) ==
    IF p.blank THEN RunResult(runs, processed, <<>>)
    ELSE IF p.startInfo.ok
    THEN (IF p.startInfo.messageChannel = S_webchat
          THEN RunResult(MapSet(runs, p.startInfo.runId, p.startInfo.sessionId),
                         processed, <<>>)
          ELSE RunResult(runs, processed, <<>>))
    ELSE IF ~p.doneInfo.ok THEN RunResult(runs, processed, <<>>)
    ELSE IF CacheHas(processed, p.doneInfo.runId)
    THEN RunResult(MapDelete(runs, p.doneInfo.runId), processed, <<>>)
    ELSE RunResult(MapDelete(runs, p.doneInfo.runId),
                   CacheAdd(processed, p.doneInfo.runId, PROCESSED_RUNS_MAX),
                   <<[runId |-> p.doneInfo.runId,
                      sessionId |-> IF p.doneInfo.runId \in DOMAIN runs
                                    THEN runs[p.doneInfo.runId]
                                    ELSE p.doneInfo.sessionId]>>)

\* processLine that looks the transcript up under the session of the done line
Run_processLine_doneSession(runs, processed, p) ==
    IF p.blank THEN RunResult(runs, processed, <<>>)
    ELSE IF p.startInfo.ok
    THEN (IF p.startInfo.messageChannel = S_webchat
          THEN RunResult(MapSet(runs, p.startInfo.runId, p.startInfo.sessionId),
                         processed, <<>>)
          ELSE RunResult(runs, processed, <<>>))
    ELSE IF ~p.doneInfo.ok \/ p.doneInfo.runId \notin DOMAIN runs
    THEN RunResult(runs, processed, <<>>)
    ELSE IF CacheHas(processed, p.doneInfo.runId)
    THEN RunResult(MapDelete(runs, p.doneInfo.runId), processed, <<>>)
    ELSE RunResult(MapDelete(runs, p.doneInfo.runId),
                   CacheAdd(processed, p.doneInfo.runId, PROCESSED_RUNS_MAX),
                   <<[runId |-> p.doneInfo.runId,
                      sessionId |-> p.doneInfo.sessionId]>>)

\* processLine that neither forgets a finished run nor remembers it
Run_processLine_keepPending(runs, processed, p) ==
    IF p.blank THEN RunResult(runs, processed, <<>>)
    ELSE IF p.startInfo.ok
    THEN (IF p.startInfo.messageChannel = S_webchat
          THEN RunResult(MapSet(runs, p.startInfo.runId, p.startInfo.sessionId),
                         processed, <<>>)
          ELSE RunResult(runs, processed, <<>>))
    ELSE IF ~p.doneInfo.ok \/ p.doneInfo.runId \notin DOMAIN runs
    THEN RunResult(runs, processed, <<>>)
    ELSE RunResult(runs,
                   CacheAdd(processed, p.doneInfo.runId, PROCESSED_RUNS_MAX),
                   <<[runId |-> p.doneInfo.runId,
                      sessionId |-> runs[p.doneInfo.runId]]>>)

\* processLine without the test processedRuns.has(doneInfo.runId)
Run_processLine_noProcessedTest(runs, processed, p) ==
    IF p.blank THEN RunResult(runs, processed, <<>>)
    ELSE IF p.startInfo.ok
    THEN (IF p.startInfo.messageChannel = S_webchat
          THEN RunResult(MapSet(runs, p.startInfo.runId, p.startInfo.sessionId),
                         processed, <<>>)
          ELSE RunResult(runs, processed, <<>>))
    ELSE IF ~p.doneInfo.ok THEN RunResult(runs, processed, <<>>)
    ELSE IF p.doneInfo.runId \notin DOMAIN runs
    THEN RunResult(runs, processed, <<>>)
    ELSE RunResult(MapDelete(runs, p.doneInfo.runId),
                   CacheAdd(processed, p.doneInfo.runId, PROCESSED_RUNS_MAX),
                   <<[runId |-> p.doneInfo.runId,
                      sessionId |-> runs[p.doneInfo.runId]]>>)

\* processLine of the run-correlation daemon, on the line as ParseRunLine
\* read it, from the state (webchatRuns, processedRuns): the state
\* afterwards and the lookups scheduled
Run_processLine(runs, processed, p) ==
    IF p.blank THEN RunResult(runs, processed, <<>>)
    ELSE IF p.startInfo.ok
    THEN (IF p.startInfo.messageChannel = S_webchat
          THEN RunResult(MapSet(runs, p.startInfo.runId, p.startInfo.sessionId),
                         processed, <<>>)
          ELSE RunResult(runs, processed, <<>>))
    ELSE IF ~p.doneInfo.ok THEN RunResult(runs, processed, <<>>)
    ELSE IF p.doneInfo.runId \notin DOMAIN runs
    THEN RunResult(runs, processed, <<>>)
    ELSE IF CacheHas(processed, p.doneInfo.runId)
    THEN RunResult(MapDelete(runs, p.doneInfo.runId), processed, <<>>)
    ELSE RunResult(MapDelete(runs, p.doneInfo.runId),
                   CacheAdd(processed, p.doneInfo.runId, PROCESSED_RUNS_MAX),
                   <<[runId |-> p.doneInfo.runId,
                      sessionId |-> runs[p.doneInfo.runId]]>>)

\* ------------------------------------------------------- MirrorLogLogic

\* text.replace(/"/g, '\\"')
RECURSIVE EscapeQuotes(_)
EscapeQuotes(s) ==
    IF Len(s) = 0 THEN <<>>
    ELSE IF Len(s) = 1
    THEN (IF s[1] = "\"" THEN <<"\\", "\"">> ELSE s)
    ELSE EscapeQuotes(SubSeq(s, 1, Len(s) \div 2))
         \o EscapeQuotes(SubSeq(s, (Len(s) \div 2) + 1, Len(s)))

\* sendToTarget(text) of a MirrorLogLogic with the default ignoreTag: the
\* cache afterwards and what is returned, false or the --message argument of
\* the command
sendToTarget(cache, text, size) ==
    IF ~Truthy(text) THEN [cache |-> cache, returned |-> FALSE]
    ELSE [cache |-> CacheAdd(cache, text.s, size),
          returned |-> MIRROR_TAG \o <<" ">> \o EscapeQuotes(text.s)]

S_webchat_word == <<"w","e","b","c","h","a","t">>

LowerSeq == <<"a","b","c","d","e","f","g","h","i","j","k","l","m",
              "n","o","p","q","r","s","t","u","v","w","x","y","z">>

UpperSeq == <<"A","B","C","D","E","F","G","H","I","J","K","L","M",
              "N","O","P","Q","R","S","T","U","V","W","X","Y","Z">>

\* String.prototype.toLowerCase, for the letters A to Z
ToLowerCase(s) ==
    [i \in 1..Len(s) |->
        IF \E k \in 1..26 : UpperSeq[k] = s[i]
        THEN LowerSeq[CHOOSE k \in 1..26 : UpperSeq[k] = s[i]]
        ELSE s[i]]

\* JSON.stringify(v).toLowerCase().includes(p) for a word p of letters: the
\* word lies inside one string of v (the keys of the entries read here,
\* '0', 'message', '_meta' and 'name', do not hold it, and no string of
\* theirs holds a character that JSON.stringify escapes)
RECURSIVE StringifyIncludes(_, _)
StringifyIncludes(v, p) ==
    IF v.t = "str" THEN Includes(ToLowerCase(v.s), p)
    ELSE IF v.t = "obj" THEN \E k \in DOMAIN v.f : StringifyIncludes(v.f[k], p)
    ELSE IF v.t = "arr" THEN \E i \in 1..Len(v.a) : StringifyIncludes(v.a[i], p)
    ELSE FALSE

\* entry._meta?.name?.includes('webchat'): "throw" when name is neither a
\* string nor an array (includes is not a function)
MetaNameIncludes(entry) ==
    LET meta == Get(entry, "_meta")
        name == IF CanRead(meta) THEN Get(meta, "name") ELSE Undef
    IN IF ~CanRead(name) THEN "undefined"
       ELSE IF name.t = "str"
       THEN (IF Includes(name.s, S_webchat_word) THEN "true" ELSE "false")
       ELSE IF name.t = "arr"
       THEN (IF \E i \in 1..Len(name.a) : name.a[i] = Str(S_webchat_word)
             THEN "true" ELSE "false")
       ELSE "throw"

\* shouldMirror(line) of a MirrorLogLogic with the default ignoreTag: null
\* or the text to mirror
shouldMirror(cache, line) ==
    IF ~ParseOk(line) THEN Null
    ELSE LET entry == ParseValue(line)
             first == Get(entry, "0")
             message == Get(entry, "message")
             content == IF Truthy(first) THEN first
                        ELSE IF Truthy(message) THEN message
                        ELSE Str(<<>>)
         IN IF ~CanRead(entry) THEN Null
            ELSE IF MetaNameIncludes(entry) = "throw" THEN Null
            ELSE IF ~(\/ MetaNameIncludes(entry) = "true"
                      \/ StringifyIncludes(entry, S_webchat_word))
            THEN Null
            ELSE IF ~Truthy(content) \/ content.t # "str" THEN Null
            ELSE IF Includes(content.s, MIRROR_TAG) THEN Null
            ELSE IF \/ StartsWith(content.s, <<"[">>)
                    \/ Includes(content.s, <<"h","t","t","p",":","/","/","1","2","7",".","0",".","0",".","1">>)
            THEN Null
            ELSE IF CacheHas(cache, content.s) THEN Null
            ELSE Str(Trim(content.s))

\* ------------------------------------------ transcript lines (test data)

S_toolCall ==
    <<"t","o","o","l","C","a","l","l">>

S_toolResult ==
    <<"t","o","o","l","R","e","s","u","l","t">>

S_thinking ==
    <<"t","h","i","n","k","i","n","g">>

S_metadata ==
    <<"m","e","t","a","d","a","t","a">>

UUID ==
    <<"a","8","7","3","3","e","4","2","-","3","d","c","e","-","4","d","e",
      "0","-","8","d","f","c","-","4","d","8","e","1","a","a","f","7","e",
      "4","a">>

MessageIdToken(id) == S_bracket_message_id \o <<" ">> \o id \o <<"]">>

T_hi ==
    <<"h","i","\n">>

T_telegram ==
    <<"[","T","e","l","e","g","r","a","m"," ","U"," ","i","d",":","1","]",
      " ","h","i","\n">>

T_system ==
    <<"S","y","s","t","e","m",":"," ","h","e","a","r","t","b","e","a","t",
      "\n">>

T_queued ==
    <<"[","Q","u","e","u","e","d"," ","m","e","s","s","a","g","e","s"," ",
      "w","h","i","l","e"," ","a","g","e","n","t"," ","w","a","s"," ","b",
      "u","s","y","]","\n">>

T_audio ==
    <<"[","A","u","d","i","o","]"," ","U","s","e","r"," ","t","e","x","t",
      ":"," ","h","i","\n">>

T_done ==
    <<"D","o","n","e",".">>

T_hello ==
    <<"H","e","l","l","o">>

T_part2 ==
    <<"P","a","r","t"," ","2">>

T_echo ==
    <<"[","m","i","r","r","o","r","e","d","]"," ","H","e","l","l","o">>

T_garbage ==
    <<"n","o","t"," ","j","s","o","n"," ","a","t"," ","a","l","l">>

T_truncated ==
    <<"{","\"","m","e","s","s","a","g","e","\"",":","{","\"","r","o","l",
      "e","\"",":","\"","a","s","s","i","s">>

TextPart(s) == Obj([type |-> Str(S_text), text |-> Str(s)])

ToolCallPart == Obj([type |-> Str(S_toolCall), name |-> Str(<<"e","x","e","c">>)])

ThinkingPart == Obj([type |-> Str(S_thinking), thinking |-> Str(T_hello)])

MessageLine(role, content) ==
    JStr(Obj([message |-> Obj([role |-> Str(role), content |-> content])]))

UserLine(text) == MessageLine(S_user, Arr(<<TextPart(text)>>))

AssistantLine(parts) == MessageLine(S_assistant, Arr(parts))

\* A catalogue entry is a line, as ParseTurnLine and ParseScanLine read it,
\* with what the line is: its kind, the channel a user turn really comes from, and the
\* text an assistant turn carries.
Entry(line, kind, origin, text) ==
    [p |-> ParseTurnLine(line), scan |-> ParseScanLine(line),
     kind |-> kind, origin |-> origin, text |-> text]

UserEntries ==
    { Entry(UserLine(T_hi \o MessageIdToken(UUID)), "user", "webchat", <<>>),
      Entry(MessageLine(S_user, Str(T_hi \o MessageIdToken(UUID))),
            "user", "webchat", <<>>),
      Entry(UserLine(T_telegram \o MessageIdToken(<<"5","0","0">>)),
            "user", "telegram", <<>>),
      Entry(UserLine(T_system \o MessageIdToken(<<"a","b","c">>)),
            "user", "system", <<>>),
      Entry(UserLine(T_queued \o MessageIdToken(UUID)), "user", "queued", <<>>),
      Entry(UserLine(T_audio \o MessageIdToken(UUID)), "user", "audio", <<>>),
      Entry(UserLine(T_hi \o MessageIdToken(<<"1","2","3","4","5">>)),
            "user", "telegram", <<>>) }

AssistantEntries ==
    { Entry(AssistantLine(<<TextPart(T_done)>>), "assistant", "na", T_done),
      Entry(AssistantLine(<<ThinkingPart, TextPart(T_hello), ToolCallPart,
                            TextPart(T_part2)>>),
            "assistant", "na", T_hello \o <<"\n","\n">> \o T_part2),
      Entry(AssistantLine(<<TextPart(T_echo)>>), "assistant", "na", T_echo),
      Entry(AssistantLine(<<ToolCallPart>>), "assistant", "na", <<>>),
      Entry(AssistantLine(<<TextPart(<<" "," ">>)>>), "assistant", "na", <<>>) }

OtherEntries ==
    { Entry(MessageLine(S_toolResult, Arr(<<TextPart(T_done)>>)),
            "other", "na", <<>>),
      Entry(JStr(Obj([type |-> Str(S_metadata)])), "other", "na", <<>>) }

\* empty, whitespace-only, text that is not JSON, JSON cut mid-write, and
\* the JSON literals null, 42, "Hello" and []
MalformedLines ==
    { Str(<<>>), Str(<<" "," ">>), Str(T_garbage), Str(T_truncated),
      JStr(Null), JStr(Num(42)), JStr(Str(T_hello)), JStr(Arr(<<>>)) }

MalformedEntries == { Entry(l, "malformed", "na", <<>>) : l \in MalformedLines }

TurnEntries ==
    UserEntries \cup AssistantEntries \cup OtherEntries \cup MalformedEntries

\* ------------------------------------------------ log lines (test data)

S_gateway_ws ==
    <<"g","a","t","e","w","a","y","/","w","s">>

S_diagnostic ==
    <<"d","i","a","g","n","o","s","t","i","c">>

S_run_tool_start ==
    <<"e","m","b","e","d","d","e","d"," ","r","u","n"," ","t","o","o","l",
      " ","s","t","a","r","t",":">>

S_run_tool_end ==
    <<"e","m","b","e","d","d","e","d"," ","r","u","n"," ","t","o","o","l",
      " ","e","n","d",":">>

S_tool_read ==
    <<" ","t","o","o","l","=","r","e","a","d">>

S_thinking_low ==
    <<" ","t","h","i","n","k","i","n","g","=","l","o","w"," ">>

S_aborted_false ==
    <<" ","a","b","o","r","t","e","d","=","f","a","l","s","e">>

T_hook ==
    <<"R","e","g","i","s","t","e","r","e","d"," ","h","o","o","k",":"," ",
      "b","o","o","t","-","m","d">>

T_echo_middle ==
    <<"S","o","m","e"," ","t","e","x","t"," ","[","m","i","r","r","o","r",
      "e","d","]"," ","m","o","r","e"," ","t","e","x","t">>

T_echo_suffix ==
    <<"H","e","l","l","o"," ","[","m","i","r","r","o","r","e","d","]">>

RunIds == {<<"r","1">>, <<"r","2">>}

SessionIds == {<<"s","1">>, <<"s","2">>}

\* makeLogLine(subsystem, message)
LogLine(subsystem, message) ==
    JStr(Obj("0" :> JStr(Obj([subsystem |-> Str(subsystem)]))
             @@ "1" :> message))

\* makePlainLogLine(message)
PlainLogLine(message) == JStr(Obj("0" :> Str(message)))

StartMessage(r, s, ch) ==
    S_run_start \o <<" ">> \o S_runId \o r \o <<" ">> \o S_sessionId \o s
    \o S_thinking_low \o S_messageChannel \o ch

DoneMessage(r, s) ==
    S_run_done \o <<" ">> \o S_runId \o r \o <<" ">> \o S_sessionId \o s
    \o S_aborted_false

ToolMessage(marker, r) == marker \o <<" ">> \o S_runId \o r \o S_tool_read

\* A catalogue entry is a log line, as ParseRunLine reads it, with what the
\* line is: its kind and the run, session and channel it names.
RunEntry(line, kind, run, session, channel) ==
    [p |-> ParseRunLine(line), kind |-> kind, run |-> run,
     session |-> session, channel |-> channel]

StartEntry(r, s, ch) ==
    RunEntry(LogLine(S_agent_embedded, Str(StartMessage(r, s, ch))),
             "start", r, s, ch)

StartEntries ==
    { StartEntry(<<"r","1">>, <<"s","1">>, S_webchat),
      StartEntry(<<"r","1">>, <<"s","2">>, S_webchat),
      StartEntry(<<"r","2">>, <<"s","1">>, S_webchat),
      StartEntry(<<"r","1">>, <<"s","1">>, S_telegram),
      StartEntry(<<"r","2">>, <<"s","1">>, S_telegram),
      StartEntry(<<"r","2">>, <<"s","2">>, S_heartbeat) }

DoneEntry(r, s) ==
    RunEntry(LogLine(S_agent_embedded, Str(DoneMessage(r, s))),
             "done", r, s, <<>>)

DoneEntries ==
    { DoneEntry(<<"r","1">>, <<"s","1">>),
      DoneEntry(<<"r","1">>, <<"s","2">>),
      DoneEntry(<<"r","2">>, <<"s","1">>) }

ToolEntries ==
    { RunEntry(LogLine(S_agent_embedded, Str(ToolMessage(m, <<"r","1">>))),
               "tool", <<"r","1">>, <<>>, <<>>) :
        m \in {S_run_tool_start, S_run_tool_end} }

\* entries of other subsystems, a plain log line, an entry whose field 1
\* is an object, and run lines that lack a key=value field
OtherLogEntries ==
    { RunEntry(LogLine(S_gateway_ws,
                       Str(StartMessage(<<"r","1">>, <<"s","1">>, S_webchat))),
               "other", <<>>, <<>>, <<>>),
      RunEntry(LogLine(S_diagnostic, Str(DoneMessage(<<"r","1">>, <<"s","1">>))),
               "other", <<>>, <<>>, <<>>),
      RunEntry(PlainLogLine(T_hook), "other", <<>>, <<>>, <<>>),
      RunEntry(LogLine(S_agent_embedded, Obj([intervalMs |-> Num(14400000)])),
               "other", <<>>, <<>>, <<>>),
      RunEntry(LogLine(S_agent_embedded,
                       Str(S_run_done \o <<" ">> \o S_sessionId \o <<"s","1">>)),
               "malformed", <<>>, <<>>, <<>>),
      RunEntry(LogLine(S_agent_embedded,
                       Str(S_run_start \o <<" ">> \o S_runId \o <<"r","1">>
                           \o <<" ">> \o S_sessionId \o <<"s","1">>)),
               "malformed", <<>>, <<>>, <<>>),
      RunEntry(LogLine(S_agent_embedded,
                       Str(S_run_done \o <<" ">> \o S_runId \o <<" ">>
                           \o S_sessionId \o <<"s","1">>)),
               "malformed", <<>>, <<>>, <<>>) }

MalformedLogEntries ==
    { RunEntry(l, "malformed", <<>>, <<>>, <<>>) :
        l \in MalformedLines \cup {Null} }

RunEntries ==
    StartEntries \cup DoneEntries \cup ToolEntries \cup OtherLogEntries
    \cup MalformedLogEntries

\* a session transcript line as the run-correlation tests write it
TranscriptLine(role, parts) ==
    JStr(Obj([type |-> Str(S_message),
              message |-> Obj([role |-> Str(role), content |-> Arr(parts)])]))

File(lines) == [exists |-> TRUE, lines |-> lines]

\* the session files the delayed lookup may find
SessionFiles ==
    { [exists |-> FALSE, lines |-> <<>>],
      File(<<Str(<<>>)>>),
      File(<<TranscriptLine(S_user, <<TextPart(T_hi)>>),
             TranscriptLine(S_assistant, <<TextPart(T_done)>>)>>),
      File(<<TranscriptLine(S_assistant, <<ThinkingPart, TextPart(T_hello)>>),
             TranscriptLine(S_toolResult, <<TextPart(T_done)>>),
             TranscriptLine(S_assistant, <<ToolCallPart>>),
             Str(T_truncated)>>),
      File(<<TranscriptLine(S_assistant, <<TextPart(T_echo)>>)>>),
      File(<<TranscriptLine(S_assistant, <<TextPart(T_echo_middle)>>)>>),
      File(<<TranscriptLine(S_assistant, <<TextPart(T_done)>>),
             TranscriptLine(S_assistant, <<TextPart(T_echo_suffix)>>)>>),
      File(<<TranscriptLine(S_assistant, <<TextPart(<<" "," ">>)>>)>>) }

\* what getLastAssistantText returns for them
LastTexts == { getLastAssistantText(f) : f \in SessionFiles }

\* ---------------------------------------------------------------- state

\* ------------------------------------------ numbered lines (test data)

MaxTexts == 52

MaxRuns == 102

Digits == <<"0","1","2","3","4","5","6","7","8","9">>

\* 'message-' + i and its decimal number
RECURSIVE Decimal(_)
Decimal(n) ==
    IF n < 10 THEN <<Digits[n + 1]>>
    ELSE Append(Decimal(n \div 10), Digits[(n % 10) + 1])

T_message_ == <<"m","e","s","s","a","g","e","-">>

NumText(n) == T_message_ \o Decimal(n)

\* the webchat user turn and assistant turns with the texts message-1,
\* message-2, ...
WebchatEntry ==
    Entry(UserLine(T_hi \o MessageIdToken(UUID)), "user", "webchat", <<>>)

NumberedEntry ==
    [n \in 1..MaxTexts |->
        Entry(AssistantLine(<<TextPart(NumText(n))>>), "assistant", "na",
              NumText(n))]

\* the RunStart and RunDone lines of the webchat runs run-1, run-2, ... of
\* session s1
NumRun(n) == <<"r","u","n","-">> \o Decimal(n)

NumberedStart ==
    [n \in 1..MaxRuns |-> StartEntry(NumRun(n), <<"s","1">>, S_webchat)]

NumberedDone ==
    [n \in 1..MaxRuns |-> DoneEntry(NumRun(n), <<"s","1">>)]

VARIABLES
    prevUserIsWebchat,  \* mirror_daemon.js: let prevUserIsWebchat
    webchatRuns,        \* part_001: the Map webchatRuns, runId -> sessionId
    processedRuns,      \* part_001: the Set processedRuns, in insertion order
    currentSessionId,   \* mirror_daemon.js: let currentSessionId
    lastLineCount,      \* mirror_daemon.js: let lastLineCount
    activeSession,      \* the sessionId sessions.json names, or "none"
    files,              \* the session files: "missing", or the lines that
                        \* data.split('\n') yields (the last one is the text
                        \* after the last newline)
    writes,             \* the number of lines written to the session files
    delivered,          \* history: the lines the last processFile passed on
    stream,             \* history: the number of lines the file held when
                        \* the session was initialised, and how often each
                        \* line of the file was passed to processLine since
                        \* (0, 1, or 2 for more than once)
    daemon,             \* which program of the repository is running
    cacheSize,          \* mirror_logic.js: this.cacheSize
    logicCache,         \* mirror_logic.js: this.mirroredCache, in insertion
                        \* order
    timers,             \* part_001: the setTimeout callbacks not yet run
    currentLogDate,     \* part_001: let currentLogDate, as a day number
    startedOn,          \* history: for each runId, the day and the channel of
                        \* the last RunStart line processed
    triggers,           \* history: every lookup scheduled, in order
    mirroredCache,      \* the Set mirroredCache, in insertion order
    sent,               \* history: the execSync calls made, in order
    threw,              \* history: the last processLine call threw
    lastEntry,          \* history: what the line last passed to processLine
                        \* was, or the timer that ran last and what it found
    lastUser            \* history: the channel of the last user turn processed,
                        \* whether a tool-call or toolResult turn has followed
                        \* it, and whether an assistant turn with text has

turnVars == <<prevUserIsWebchat, mirroredCache, sent, threw, lastEntry, lastUser>>

runVars == <<webchatRuns, processedRuns, timers, triggers, currentLogDate,
            startedOn>>

pollVars == <<currentSessionId, lastLineCount, activeSession, files, writes,
              delivered, stream>>

logicVars == <<daemon, cacheSize, logicCache>>

vars == <<prevUserIsWebchat, webchatRuns, processedRuns, timers, triggers,
          currentLogDate, startedOn,
          currentSessionId, lastLineCount, activeSession, files, writes,
          delivered, stream, daemon, cacheSize, logicCache, mirroredCache, sent,
          threw, lastEntry, lastUser>>

Sessions == {"s1", "s2"}

MaxWrites == 3

\* no line passed to processLine yet, of a file that held n lines; cut tells
\* whether the file was truncated since
NoStream(n) ==
    [initial |-> n, cut |-> FALSE, times |-> [i \in 1..(MaxWrites + 1) |-> 0]]

\* no session file exists and sessions.json names no session
NoPoller ==
    /\ currentSessionId = "none"
    /\ lastLineCount = 0
    /\ activeSession = "none"
    /\ files = [x \in Sessions |-> "missing"]
    /\ writes = 0
    /\ delivered = <<>>
    /\ stream = NoStream(0)

\* a MirrorLogLogic constructed with the default cacheSize and not used
NoLogic ==
    /\ cacheSize = 10
    /\ logicCache = <<>>

EmptyMap == [x \in {} |-> <<>>]

\* the log of the first day is tailed and no RunStart line was read
NoRotation ==
    /\ currentLogDate = 0
    /\ startedOn = EmptyMap

NoEntry == [kind |-> "none", origin |-> "na", text |-> <<>>, again |-> FALSE]

NoUser == [origin |-> "none", between |-> FALSE, answered |-> FALSE]

\* the state of a freshly started turn-flag daemon
TurnInit ==
    /\ prevUserIsWebchat = FALSE
    /\ mirroredCache = <<>>
    /\ sent = <<>>
    /\ threw = FALSE
    /\ lastEntry = NoEntry
    /\ lastUser = NoUser
    /\ webchatRuns = EmptyMap
    /\ processedRuns = <<>>
    /\ timers = <<>>
    /\ triggers = <<>>
    /\ NoPoller
    /\ NoRotation
    /\ NoLogic
    /\ daemon = "turn-flag"

\* history kept beside a processLine call
NextUser(e) ==
    IF e.kind = "user"
    THEN [origin |-> e.origin, between |-> FALSE, answered |-> FALSE]
    ELSE IF e.kind = "assistant" /\ e.text # <<>>
    THEN [lastUser EXCEPT !.answered = TRUE]
    ELSE IF e.kind \in {"assistant", "other"} /\ ~lastUser.answered
    THEN [lastUser EXCEPT !.between = TRUE]
    ELSE lastUser

\* one call processLine(e.line); ok is the outcome of the send, if any.  The
\* history notes what the line is and whether the line before it was alike
ProcessLine(e, ok) ==
    LET r == processLine(prevUserIsWebchat, mirroredCache, e.p, ok)
    IN /\ daemon = "turn-flag"
       /\ prevUserIsWebchat' = r.prev
       /\ mirroredCache' = r.cache
       /\ sent' = sent \o r.out
       /\ threw' = r.threw
       /\ lastEntry' = [kind |-> e.kind, origin |-> e.origin, text |-> e.text,
                        again |-> /\ lastEntry.kind = e.kind
                                  /\ lastEntry.origin = e.origin
                                  /\ lastEntry.text = e.text]
       /\ lastUser' = NextUser(e)
       /\ UNCHANGED <<runVars, pollVars, logicVars>>

TurnNext == \E e \in TurnEntries, ok \in BOOLEAN : ProcessLine(e, ok)

SpecTurn == TurnInit /\ [][TurnNext]_vars

\* ------------------------------------------------ turn-flag: the poller

\* the lines written to the session files
PollEntries ==
    { Entry(UserLine(T_hi \o MessageIdToken(UUID)), "user", "webchat", <<>>),
      Entry(AssistantLine(<<TextPart(T_done)>>), "assistant", "na", T_done),
      Entry(JStr(Null), "malformed", "na", <<>>),
      Entry(Str(T_garbage), "malformed", "na", <<>>) }

\* the text after the last newline of a file that ends with a newline
EmptyLine == Entry(Str(<<>>), "blank", "na", <<>>)

\* the state of a freshly started turn-flag daemon before its first poll
PollInit ==
    /\ prevUserIsWebchat = FALSE
    /\ mirroredCache = <<>>
    /\ sent = <<>>
    /\ threw = FALSE
    /\ lastEntry = [kind |-> "none", switched |-> FALSE, from |-> 0, lines |-> <<>>]
    /\ lastUser = NoUser
    /\ webchatRuns = EmptyMap
    /\ processedRuns = <<>>
    /\ timers = <<>>
    /\ triggers = <<>>
    /\ NoPoller
    /\ NoRotation
    /\ NoLogic
    /\ daemon = "turn-flag"

\* sessions.json comes to name another session
SetActiveSession(s) ==
    /\ s # activeSession
    /\ activeSession' = s
    /\ lastEntry' = [kind |-> "active", switched |-> FALSE, from |-> 0, lines |-> <<>>]
    /\ UNCHANGED <<prevUserIsWebchat, mirroredCache, sent, threw, lastUser,
                   currentSessionId, lastLineCount, files, writes, delivered,
                   stream, runVars, logicVars>>

\* whether the file ends with a newline (or does not exist): the text after
\* the last newline is empty
EndsWithNewline(lines) ==
    IF lines = "missing" THEN TRUE ELSE lines[Len(lines)].kind = "blank"

\* the number of lines of text the file holds
NonBlank(lines) ==
    IF lines = "missing" THEN 0
    ELSE Cardinality({i \in 1..Len(lines) : lines[i].kind # "blank"})

\* the agent appends the line e without its newline to the file of session s
WriteText(s, e) ==
    /\ writes < MaxWrites
    /\ EndsWithNewline(files[s])
    /\ writes' = writes + 1
    /\ files' = [files EXCEPT ![s] =
                    IF files[s] = "missing" THEN <<e>>
                    ELSE SubSeq(files[s], 1, Len(files[s]) - 1) \o <<e>>]
    /\ lastEntry' = [kind |-> "write", switched |-> FALSE, from |-> 0, lines |-> <<>>]
    /\ UNCHANGED <<prevUserIsWebchat, mirroredCache, sent, threw, lastUser,
                   currentSessionId, lastLineCount, activeSession, delivered,
                   stream, runVars, logicVars>>

\* the agent appends the newline that ends the last line of the file
WriteNewline(s) ==
    /\ ~EndsWithNewline(files[s])
    /\ files' = [files EXCEPT ![s] = Append(files[s], EmptyLine)]
    /\ lastEntry' = [kind |-> "write", switched |-> FALSE, from |-> 0, lines |-> <<>>]
    /\ UNCHANGED <<prevUserIsWebchat, mirroredCache, sent, threw, lastUser,
                   currentSessionId, lastLineCount, activeSession, delivered,
                   writes, stream, runVars, logicVars>>

\* the agent appends the line e and a newline to the file of session s
WriteLine(s, e) ==
    /\ writes < MaxWrites
    /\ EndsWithNewline(files[s])
    /\ writes' = writes + 1
    /\ files' = [files EXCEPT ![s] =
                    IF files[s] = "missing" THEN <<e, EmptyLine>>
                    ELSE SubSeq(files[s], 1, Len(files[s]) - 1) \o <<e, EmptyLine>>]
    /\ lastEntry' = [kind |-> "write", switched |-> FALSE, from |-> 0, lines |-> <<>>]
    /\ UNCHANGED <<prevUserIsWebchat, mirroredCache, sent, threw, lastUser,
                   currentSessionId, lastLineCount, activeSession, delivered,
                   stream, runVars, logicVars>>

\* the session change of watchSession without lastLineCount = lines.length
Switched_fromStart(lines) ==
    IF lines = "missing"
    THEN [count |-> 0, prev |-> FALSE]
    ELSE [count |-> 0, prev |-> InitialScan(lines, Len(lines))]

\* the session change of watchSession without the two assignments
\* lastLineCount = 0 and prevUserIsWebchat = false
Switched_noReset(lines) ==
    IF lines = "missing"
    THEN [count |-> lastLineCount, prev |-> prevUserIsWebchat]
    ELSE [count |-> Len(lines),
          prev |-> IF \E i \in 1..Len(lines) : lines[i].scan.isUser
                   THEN InitialScan(lines, Len(lines))
                   ELSE prevUserIsWebchat]

\* watchSession(), one run of the interval callback, on a session change
\* first: the state after the initialising scan
Switched(lines) ==
    IF lines = "missing"
    THEN [count |-> 0, prev |-> FALSE]
    ELSE [count |-> Len(lines), prev |-> InitialScan(lines, Len(lines))]

\* the history after the lines at the positions done were passed on
Passed(h, done) ==
    [h EXCEPT !.times = [i \in DOMAIN h.times |->
        IF \E k \in 1..Len(done) : done[k] = i
        THEN (IF h.times[i] = 0 THEN 1 ELSE 2)
        ELSE h.times[i]]]

watchSession(ok) ==
    /\ activeSession # "none"
    /\ LET lines == files[activeSession]
           change == activeSession # currentSessionId
           start == IF change THEN Switched(lines)
                    ELSE [count |-> lastLineCount, prev |-> prevUserIsWebchat]
           r == IF lines = "missing"
                THEN [count |-> start.count, threw |-> FALSE, prev |-> start.prev,
                      cache |-> mirroredCache, out |-> <<>>, delivered |-> <<>>]
                ELSE processFile(start.count, start.prev, mirroredCache, lines, ok)
       IN /\ currentSessionId' = activeSession
          /\ lastLineCount' = r.count
          /\ prevUserIsWebchat' = r.prev
          /\ mirroredCache' = r.cache
          /\ sent' = sent \o r.out
          /\ threw' = r.threw
          /\ delivered' = r.delivered
          /\ stream' = Passed(IF change THEN NoStream(NonBlank(lines)) ELSE stream,
                              r.delivered)
          /\ lastEntry' = [kind |-> "poll", switched |-> change,
                           from |-> start.count,
                           lines |-> IF lines = "missing" THEN <<>>
                                     ELSE [i \in 1..Len(lines) |-> lines[i].kind]]
    /\ UNCHANGED <<lastUser, activeSession, files, writes, runVars, logicVars>>

PollNext ==
    \/ \E s \in Sessions : SetActiveSession(s)
    \/ \E s \in Sessions, e \in PollEntries : WriteLine(s, e)
    \/ \E s \in Sessions, e \in PollEntries : WriteText(s, e)
    \/ \E s \in Sessions : WriteNewline(s)
    \/ \E ok \in BOOLEAN : watchSession(ok)

SpecPoll == PollInit /\ [][PollNext]_vars

\* --------------------------------------------------- turn-flag: claims

\* C1: no text that contains the mirror marker tag is ever handed to the
\* external send command by the turn-flag daemon.
C1_NoMarkerSent ==
    \A i \in 1..Len(sent) : ~Includes(sent[i].text, MIRROR_TAG)

\* C3: a send happens only in a step that processes an assistant turn with
\* non-empty text while the most recent user turn processed came from the
\* source channel (webchat); it is one send.
C3_SendOnlyAfterSourceTurn ==
    [][sent' # sent =>
          /\ lastEntry'.kind = "assistant"
          /\ lastEntry'.text # <<>>
          /\ lastUser.origin = "webchat"
          /\ prevUserIsWebchat
          /\ Len(sent') = Len(sent) + 1
          /\ SubSeq(sent', 1, Len(sent)) = sent]_vars

\* C3 witness: an assistant turn with text was processed after a Telegram
\* user turn, in a run in which a send did happen earlier.
C3_Witness ==
    /\ Len(sent) > 0
    /\ lastUser.origin = "telegram"
    /\ lastEntry.kind = "assistant"
    /\ lastEntry.text # <<>>

\* the first assistant turn with text after a webchat user turn is processed
FirstTextAfterSource ==
    /\ lastEntry'.kind = "assistant"
    /\ lastEntry'.text # <<>>
    /\ lastUser.origin = "webchat"
    /\ ~lastUser.answered

OneSendOf(text) ==
    /\ Len(sent') = Len(sent) + 1
    /\ SubSeq(sent', 1, Len(sent)) = sent
    /\ sent'[Len(sent')].text = text

\* C4 as stated: after a webchat user turn, whatever tool-call and
\* toolResult turns intervene, the next assistant turn with text is
\* forwarded, by exactly one send of exactly that text.
C4_NextTextForwardedOnce ==
    [][FirstTextAfterSource => OneSendOf(lastEntry'.text)]_vars

\* C4 amended: ... the next assistant turn with text is forwarded by exactly
\* one send of exactly that text unless the text is already in
\* mirroredCache, in which case nothing is sent.
C4_NextTextForwardedUnlessCached ==
    [][FirstTextAfterSource =>
          IF CacheHas(mirroredCache, lastEntry'.text)
          THEN sent' = sent
          ELSE OneSendOf(lastEntry'.text)]_vars

\* C4 witness: a webchat user turn, tool turns, then an assistant turn whose
\* text is the last one sent.
C4_Witness ==
    /\ lastUser.origin = "webchat"
    /\ lastUser.between
    /\ lastUser.answered
    /\ lastEntry.kind = "assistant"
    /\ Len(sent) > 0
    /\ sent[Len(sent)].text = lastEntry.text

\* C5: processLine returns without throwing for every malformed or empty
\* line and leaves the correlation state and the cache unchanged.
C5_MalformedIsNoOp ==
    [][lastEntry'.kind = "malformed" =>
          /\ ~threw'
          /\ UNCHANGED <<prevUserIsWebchat, mirroredCache, sent>>]_vars

TurnLines == {e \in TurnEntries : e.kind \in {"user", "assistant"}}

\* C12: the turn-flag daemon is idempotent under re-delivery: from every
\* reachable state, processLine applied twice in a row to the same user or
\* assistant line leaves prevUserIsWebchat and mirroredCache as the first
\* call left them, and the two calls together send at most once.
C12_RedeliveryIdempotent ==
    \A e \in TurnLines, ok1 \in BOOLEAN, ok2 \in BOOLEAN :
        LET first == processLine(prevUserIsWebchat, mirroredCache, e.p, ok1)
            second == processLine(first.prev, first.cache, e.p, ok2)
        IN /\ second.prev = first.prev
           /\ second.cache = first.cache
           /\ Len(first.out) + Len(second.out) <= 1

\* C12 witness: the assistant line with the text "Done." has been processed
\* twice in a row after a webchat user turn, and the text was sent once.
C12_Witness ==
    /\ lastEntry.kind = "assistant"
    /\ lastEntry.text = T_done
    /\ lastEntry.again
    /\ prevUserIsWebchat
    /\ Cardinality({i \in 1..Len(sent) : sent[i].text = T_done}) = 1

\* C13: acceptance is cache-then-send: a step that calls execSync for a
\* text calls it once, for a text that was not cached before, with the text
\* in mirroredCache when the call is made and after the step, so that the
\* same text detected again at once, whatever the outcome of the call, is
\* not sent.
C13_CacheThenSend ==
    [][sent' # sent =>
          /\ Len(sent') = Len(sent) + 1
          /\ SubSeq(sent', 1, Len(sent)) = sent
          /\ LET call == sent'[Len(sent')]
             IN /\ call.cached
                /\ ~CacheHas(mirroredCache, call.text)
                /\ CacheHas(mirroredCache', call.text)
                /\ \A ok \in BOOLEAN :
                       sendToTelegram(mirroredCache', Str(call.text), ok).out = <<>>]_vars

\* C13 witness: the step just taken sent the text of a two-part assistant
\* turn, which is now the newest entry of mirroredCache.
C13_Witness ==
    /\ lastEntry.kind = "assistant"
    /\ ~lastEntry.again
    /\ Len(sent) > 0
    /\ sent[Len(sent)].text = lastEntry.text
    /\ sent[Len(sent)].cached
    /\ Len(mirroredCache) > 1
    /\ mirroredCache[Len(mirroredCache)] = lastEntry.text

SendsOf(seq, text) == Cardinality({i \in 1..Len(seq) : seq[i].text = text})

\* C14: a send that fails or times out leaves its text in mirroredCache and
\* is not retried: the step that makes the failing call makes that one call
\* only, and while the text of a failed call is cached no later step calls
\* execSync for it again.
C14_FailedSendNotRetried ==
    [][/\ (Len(sent') > Len(sent) /\ ~sent'[Len(sent) + 1].ok) =>
              /\ Len(sent') = Len(sent) + 1
              /\ SendsOf(sent', sent'[Len(sent')].text)
                    = SendsOf(sent, sent'[Len(sent')].text) + 1
              /\ CacheHas(mirroredCache', sent'[Len(sent')].text)
       /\ \A i \in 1..Len(sent) :
              (~sent[i].ok /\ CacheHas(mirroredCache, sent[i].text)) =>
                 /\ SendsOf(sent', sent[i].text) = SendsOf(sent, sent[i].text)
                 /\ CacheHas(mirroredCache', sent[i].text)]_vars

\* C14 witness: the send of "Done." failed, another text was sent later,
\* and the assistant line with "Done." has been processed again after a
\* webchat user turn: "Done." is still cached and was sent once.
C14_Witness ==
    /\ Len(sent) >= 2
    /\ sent[1].text = T_done
    /\ ~sent[1].ok
    /\ lastEntry.kind = "assistant"
    /\ lastEntry.text = T_done
    /\ prevUserIsWebchat
    /\ CacheHas(mirroredCache, T_done)
    /\ SendsOf(sent, T_done) = 1

\* -------------------------------------------- run-correlation: the daemon

NoRunEntry ==
    [kind |-> "none", run |-> <<>>, session |-> <<>>, channel |-> <<>>,
     again |-> FALSE, tracked |-> FALSE, known |-> FALSE, found |-> Null]

\* the state of a freshly started run-correlation daemon
RunInit ==
    /\ webchatRuns = EmptyMap
    /\ processedRuns = <<>>
    /\ timers = <<>>
    /\ triggers = <<>>
    /\ mirroredCache = <<>>
    /\ sent = <<>>
    /\ threw = FALSE
    /\ lastEntry = NoRunEntry
    /\ prevUserIsWebchat = FALSE
    /\ lastUser = NoUser
    /\ NoPoller
    /\ NoRotation
    /\ NoLogic
    /\ daemon = "run-correlation"

\* what the entry is, whether it is the line delivered just before, and
\* whether its run was in webchatRuns and in processedRuns when it came
RunLabel(e) ==
    [kind |-> e.kind, run |-> e.run, session |-> e.session,
     channel |-> e.channel,
     again |-> /\ e.kind \in {"start", "done"}
               /\ lastEntry.kind = e.kind
               /\ lastEntry.run = e.run
               /\ lastEntry.session = e.session
               /\ lastEntry.channel = e.channel,
     tracked |-> e.run \in DOMAIN webchatRuns,
     known |-> CacheHas(processedRuns, e.run),
     found |-> Null]

\* one call processLine(e.line) of the tail 'data' handler
Run_ProcessLine(e) ==
    LET r == Run_processLine(webchatRuns, processedRuns, e.p)
    IN /\ daemon = "run-correlation"
       /\ webchatRuns' = r.runs
       /\ processedRuns' = r.processed
       /\ timers' = timers \o r.scheduled
       /\ triggers' = triggers \o r.scheduled
       /\ lastEntry' = RunLabel(e)
       /\ startedOn' = IF e.kind = "start"
                       THEN MapSet(startedOn, e.run,
                                   [date |-> currentLogDate,
                                    channel |-> e.channel])
                       ELSE startedOn
       /\ UNCHANGED <<mirroredCache, sent, threw, prevUserIsWebchat, lastUser,
                      currentLogDate,
                      pollVars, logicVars>>

\* the setTimeout callbacks run newest first
Run_TimerFires_newestFirst(text, ok) ==
    /\ daemon = "run-correlation"
    /\ Len(timers) > 0
    /\ LET r == Run_lookup(mirroredCache, text, ok)
       IN /\ mirroredCache' = r.cache
          /\ sent' = sent \o r.out
    /\ timers' = SubSeq(timers, 1, Len(timers) - 1)
    /\ lastEntry' = [NoRunEntry EXCEPT !.kind = "timer",
                                       !.run = timers[Len(timers)].runId,
                                       !.session = timers[Len(timers)].sessionId,
                                       !.found = text]
    /\ UNCHANGED <<webchatRuns, processedRuns, triggers, threw,
                   currentLogDate, startedOn,
                   prevUserIsWebchat, lastUser, pollVars, logicVars>>

\* a pending setTimeout callback that would still run once the process has
\* exited
Run_TimerFires_afterExit(text, ok) ==
    /\ Len(timers) > 0
    /\ LET r == Run_lookup(mirroredCache, text, ok)
       IN /\ mirroredCache' = r.cache
          /\ sent' = sent \o r.out
    /\ timers' = Tail(timers)
    /\ lastEntry' = [NoRunEntry EXCEPT !.kind = "timer",
                                       !.run = Head(timers).runId,
                                       !.session = Head(timers).sessionId,
                                       !.found = text]
    /\ UNCHANGED <<webchatRuns, processedRuns, triggers, threw,
                   currentLogDate, startedOn,
                   prevUserIsWebchat, lastUser, pollVars, logicVars>>

\* the oldest pending setTimeout callback runs: text is what
\* getLastAssistantText finds in the session file at that moment, ok the
\* outcome of the send.  Callbacks run only while the process lives
Run_TimerFires(text, ok) ==
    /\ daemon = "run-correlation"
    /\ Len(timers) > 0
    /\ LET r == Run_lookup(mirroredCache, text, ok)
       IN /\ mirroredCache' = r.cache
          /\ sent' = sent \o r.out
    /\ timers' = Tail(timers)
    /\ lastEntry' = [NoRunEntry EXCEPT !.kind = "timer",
                                       !.run = Head(timers).runId,
                                       !.session = Head(timers).sessionId,
                                       !.found = text]
    /\ UNCHANGED <<webchatRuns, processedRuns, triggers, threw,
                   currentLogDate, startedOn,
                   prevUserIsWebchat, lastUser, pollVars, logicVars>>

RunNext ==
    \/ \E e \in RunEntries : Run_ProcessLine(e)
    \/ \E text \in LastTexts, ok \in BOOLEAN : Run_TimerFires(text, ok)

SpecRun == RunInit /\ [][RunNext]_vars

\* ----------------------------------- run-correlation: the log-date rotation

MaxRotations == 1

\* the interval callback of watchForDateChange without webchatRuns.clear()
watchForDateChange_noClear ==
    /\ currentLogDate < MaxRotations
    /\ currentLogDate' = currentLogDate + 1
    /\ lastEntry' = [NoRunEntry EXCEPT !.kind = "rotate"]
    /\ UNCHANGED <<webchatRuns, processedRuns, timers, triggers, startedOn,
                   mirroredCache, sent, threw, prevUserIsWebchat, lastUser,
                   pollVars, logicVars>>

\* the interval callback of watchForDateChange on a day when getDateStr()
\* differs from currentLogDate: the pending runs are cleared and the log of
\* the new day is tailed.  On other days the callback does nothing.
watchForDateChange ==
    /\ currentLogDate < MaxRotations
    /\ currentLogDate' = currentLogDate + 1
    /\ webchatRuns' = EmptyMap
    /\ lastEntry' = [NoRunEntry EXCEPT !.kind = "rotate"]
    /\ UNCHANGED <<processedRuns, timers, triggers, startedOn,
                   mirroredCache, sent, threw, prevUserIsWebchat, lastUser,
                   pollVars, logicVars>>

RotateNext ==
    \/ \E e \in RunEntries : Run_ProcessLine(e)
    \/ \E text \in LastTexts, ok \in BOOLEAN : Run_TimerFires(text, ok)
    \/ watchForDateChange

SpecRotate == RunInit /\ [][RotateNext]_vars

\* C21: a log-date rotation leaves webchatRuns empty; every pending run was
\* started on the current log date; and a RunDone line of a run whose last
\* RunStart was read before the last rotation schedules no lookup.
C21_RotationClearsPending ==
    [][/\ lastEntry'.kind = "rotate" => webchatRuns' = EmptyMap
       /\ \A r \in DOMAIN webchatRuns' :
              /\ r \in DOMAIN startedOn'
              /\ startedOn'[r].date = currentLogDate'
       /\ (/\ lastEntry'.kind = "done"
           /\ lastEntry'.run \in DOMAIN startedOn
           /\ startedOn[lastEntry'.run].date < currentLogDate)
             => /\ triggers' = triggers
                /\ timers' = timers
                /\ processedRuns' = processedRuns]_vars

\* C21 witness: the RunDone line of a webchat run started on an earlier log
\* date was read after the rotation, no lookup was ever scheduled, and
\* the run was not pending when the line came.
C21_Witness ==
    /\ lastEntry.kind = "done"
    /\ lastEntry.run \in DOMAIN startedOn
    /\ startedOn[lastEntry.run].channel = S_webchat
    /\ startedOn[lastEntry.run].date < currentLogDate
    /\ ~lastEntry.tracked
    /\ triggers = <<>>

\* ------------------------------------------------- the bounded caches

MaxSends == 54

MaxTriggers == 103

\* the lines delivered again are those of the first MaxRedelivered texts
\* and runs
MaxRedelivered == 2

\* the cacheSize arguments a MirrorLogLogic is constructed with
CacheSizes == {1, 2, 3, 10}

\* a MirrorLogLogic just constructed
LogicInit ==
    /\ daemon = "logic"
    /\ cacheSize \in CacheSizes
    /\ logicCache = <<>>
    /\ prevUserIsWebchat = FALSE
    /\ mirroredCache = <<>>
    /\ sent = <<>>
    /\ threw = FALSE
    /\ lastEntry = [kind |-> "none", text |-> <<>>, returned |-> FALSE]
    /\ lastUser = NoUser
    /\ webchatRuns = EmptyMap
    /\ processedRuns = <<>>
    /\ timers = <<>>
    /\ triggers = <<>>
    /\ NoPoller
    /\ NoRotation

\* one of the three programs, freshly started
CacheInit == TurnInit \/ RunInit \/ LogicInit

\* the texts and runs seen so far: new ones come in the order of their
\* numbers
KnownTexts == Cardinality({sent[i].text : i \in 1..Len(sent)})

KnownRuns == Cardinality({triggers[i].runId : i \in 1..Len(triggers)})

\* the turn-flag daemon reads the webchat user turn
Cache_UserLine ==
    /\ daemon = "turn-flag"
    /\ ProcessLine(WebchatEntry, TRUE)

\* the turn-flag daemon reads the assistant turn with the text message-n;
\* the send, if any, succeeds
Cache_AssistantLine(n) ==
    /\ daemon = "turn-flag"
    /\ n = KnownTexts + 1 \/ (n <= MaxRedelivered /\ n <= KnownTexts)
    /\ Len(sent) < MaxSends
    /\ ProcessLine(NumberedEntry[n], TRUE)

\* the run-correlation daemon reads the RunStart line of run-n while no
\* run and no lookup is pending
Cache_RunStart(n) ==
    /\ daemon = "run-correlation"
    /\ n = KnownRuns + 1 \/ (n <= MaxRedelivered /\ n <= KnownRuns)
    /\ Len(triggers) < MaxTriggers
    /\ webchatRuns = EmptyMap
    /\ timers = <<>>
    /\ Run_ProcessLine(NumberedStart[n])

\* the run-correlation daemon reads the RunDone line of the pending run
Cache_RunDone(n) ==
    /\ daemon = "run-correlation"
    /\ NumRun(n) \in DOMAIN webchatRuns
    /\ Run_ProcessLine(NumberedDone[n])

\* what getLastAssistantText finds for run-n: the reply message-n, and
\* nothing (no session file) when n is above MaxTexts
LastTextOf(run) ==
    IF \E n \in 1..MaxTexts : NumRun(n) = run
    THEN Str(NumText(CHOOSE n \in 1..MaxTexts : NumRun(n) = run))
    ELSE Null

\* the lookup of the run-correlation daemon runs; the send, if any, succeeds
Cache_TimerFires ==
    /\ daemon = "run-correlation"
    /\ Len(timers) > 0
    /\ Run_TimerFires(LastTextOf(Head(timers).runId), TRUE)

\* logic.sendToTarget('message-' + n)
Logic_sendToTarget(n) ==
    /\ daemon = "logic"
    /\ n <= Len(logicCache) + 1
    /\ LET r == sendToTarget(logicCache, Str(NumText(n)), cacheSize)
       IN /\ logicCache' = r.cache
          /\ lastEntry' = [kind |-> "sendToTarget", text |-> NumText(n),
                           returned |-> r.returned]
    /\ UNCHANGED <<daemon, cacheSize, prevUserIsWebchat, mirroredCache, sent,
                   threw, lastUser, runVars, pollVars>>

CacheNext ==
    \/ Cache_UserLine
    \/ \E n \in 1..MaxTexts : Cache_AssistantLine(n)
    \/ \E n \in 1..MaxRuns : Cache_RunStart(n)
    \/ \E n \in 1..MaxRuns : Cache_RunDone(n)
    \/ Cache_TimerFires
    \/ \E n \in 1..MaxTexts : Logic_sendToTarget(n)

SpecCache == CacheInit /\ [][CacheNext]_vars

\* ------------------------------------------------ MirrorLogLogic: the calls

T_help_me == <<"H","e","l","p"," ","m","e">>

T_hello_assistant == <<"H","e","l","l","o"," ","A","s","s","i","s","t","a","n","t">>

T_help_me_padded == <<" ","H","e","l","p"," ","m","e","\n">>

T_webchat_says_hi == <<"w","e","b","c","h","a","t"," ","s","a","y","s"," ","h","i">>

T_about_webchat == <<"T","e","l","l"," ","m","e"," ","a","b","o","u","t"," ","w","e","b","c","h","a","t">>

WebchatMeta == Obj([name |-> Str(<<"g","a","t","e","w","a","y","/","c","h","a","n","n","e","l","s","/","w","e","b","c","h","a","t">>)])

\* a webchat line whose content begins and ends with whitespace
PaddedLine == JStr(Obj("0" :> Str(T_help_me_padded) @@ "_meta" :> WebchatMeta))

\* the log lines read, each with the text a fresh MirrorLogLogic mirrors
\* (none for a line it does not mirror) and the channel its _meta.name
\* names ("none" for a line without _meta)
LogicLines ==
    { [line |-> JStr(Obj("0" :> Str(T_hello_assistant) @@ "_meta" :> WebchatMeta)),
       text |-> T_hello_assistant,
       channel |-> "webchat"],
      [line |-> JStr(Obj("0" :> Str(T_help_me) @@ "_meta" :> WebchatMeta)),
       text |-> T_help_me,
       channel |-> "webchat"],
      [line |-> PaddedLine, text |-> T_help_me,
       channel |-> "webchat"],
      [line |-> JStr(Obj("message" :> Str(T_help_me)
                         @@ "_meta" :> Obj([name |-> Str(<<"g","a","t","e","w","a","y","/","W","e","b","C","h","a","t">>)]))),
       text |-> T_help_me,
       channel |-> "webchat"],
      [line |-> JStr(Obj("0" :> Str(MIRROR_TAG \o <<" ">> \o T_hello_assistant)
                         @@ "_meta" :> WebchatMeta)),
       text |-> <<>>,
       channel |-> "webchat"],
      [line |-> JStr(Obj("0" :> Str(<<"[","I","N","F","O","]"," ","G","a","t","e","w","a","y"," ","s","t","a","r","t","e","d"," ","a","t"," ","h","t","t","p",":","/","/","1","2","7",".","0",".","0",".","1">>)
                         @@ "_meta" :> WebchatMeta)),
       text |-> <<>>,
       channel |-> "webchat"],
      [line |-> JStr(Obj("0" :> Str(<<"I","n","t","e","r","n","a","l"," ","p","r","o","c","e","s","s"," ","l","o","g">>)
                         @@ "_meta" :> Obj([name |-> Str(<<"i","n","t","e","r","n","a","l","/","c","o","r","e">>)]))),
       text |-> <<>>,
       channel |-> "internal"],
      [line |-> JStr(Obj("0" :> Str(T_webchat_says_hi))),
       text |-> T_webchat_says_hi,
       channel |-> "none"],
      [line |-> JStr(Obj("0" :> Str(T_about_webchat)
                         @@ "_meta" :> Obj([name |-> Str(<<"i","n","t","e","r","n","a","l","/","c","o","r","e">>)]))),
       text |-> T_about_webchat,
       channel |-> "internal"],
      [line |-> Str(T_garbage), text |-> <<>>,
       channel |-> "none"] }

\* the texts shouldMirror returns for these lines
LogicTexts == {x.text : x \in LogicLines} \ {<<>>}

\* one call logic.shouldMirror(x.line)
Logic_shouldMirror(x) ==
    /\ daemon = "logic"
    /\ lastEntry' = [kind |-> "shouldMirror", text |-> x.text,
                     padded |-> x.line = PaddedLine,
                     channel |-> x.channel,
                     returned |-> shouldMirror(logicCache, x.line)]
    /\ UNCHANGED <<daemon, cacheSize, logicCache, prevUserIsWebchat,
                   mirroredCache, sent, threw, lastUser, runVars, pollVars>>

\* one call logic.sendToTarget(t) with a text that shouldMirror returns
Logic_sendReturned(t) ==
    /\ daemon = "logic"
    /\ LET r == sendToTarget(logicCache, Str(t), cacheSize)
       IN /\ logicCache' = r.cache
          /\ lastEntry' = [kind |-> "sendToTarget", text |-> t,
                           returned |-> r.returned]
    /\ UNCHANGED <<daemon, cacheSize, prevUserIsWebchat, mirroredCache, sent,
                   threw, lastUser, runVars, pollVars>>

LogicNext ==
    \/ \E x \in LogicLines : Logic_shouldMirror(x)
    \/ \E t \in LogicTexts : Logic_sendReturned(t)

SpecLogic == LogicInit /\ [][LogicNext]_vars

\* ------------------------------------------- the helpers, called directly

\* how a user text starts: with one of the four excluded prefixes, or with
\* none of them (nothing, the prefix after a space, the prefix in lower case)
TextStarts ==
    { [label |-> "none", s |-> <<>>],
      [label |-> "none", s |-> <<" ","[","T","e","l","e","g","r","a","m"," ","B","o","b","]"," ">>],
      [label |-> "none", s |-> <<"s","y","s","t","e","m",":"," ">>],
      [label |-> "telegram", s |-> <<"[","T","e","l","e","g","r","a","m"," ","B","o","b","]"," ">>],
      [label |-> "system", s |-> <<"S","y","s","t","e","m",":"," ">>],
      [label |-> "queued", s |-> <<"[","Q","u","e","u","e","d"," ","m","e","s","s","a","g","e","s",
                                     "]","\n">>],
      [label |-> "audio", s |-> <<"[","A","u","d","i","o","]"," ">>] }

TextBodies == { <<>>, <<"h","i","\n">> }

UUID2 ==
    <<"f","9","4","a","a","1","3","9","-","d","f","d","3","-","4","0",
      "6","7","-","9","2","e","5","-","6","7","d","a","0","9","7","c",
      "6","8","e","0">>

Digits36 ==
    <<"1","2","3","4","5","6","7","8","9","0","1","2","3","4","5","6",
      "7","8","9","0","1","2","3","4","5","6","7","8","9","0","1","2",
      "3","4","5","6">>

Hex32 ==
    <<"a","8","7","3","3","6","4","2","3","d","c","e","4","d","e","0",
      "8","d","f","c","4","d","8","e","1","a","a","f","7","e","4","a">>

\* how a user text ends: without message_id token ("none", the token without
\* its opening or its closing bracket) or with the token and an id of the
\* shape uuid, numeric or other
TextEnds ==
    { [shape |-> "none", s |-> <<>>],
      [shape |-> "none", s |-> S_message_id \o <<" ">> \o UUID],
      [shape |-> "none", s |-> S_bracket_message_id \o <<" ">> \o UUID],
      [shape |-> "uuid", s |-> MessageIdToken(UUID)],
      [shape |-> "uuid", s |-> MessageIdToken(UUID2)],
      [shape |-> "uuid", s |-> S_bracket_message_id \o UUID \o <<"]">>],
      [shape |-> "numeric", s |-> MessageIdToken(<<"4","1","9">>)],
      [shape |-> "numeric", s |-> MessageIdToken(<<"1","2","3","4","5">>)],
      [shape |-> "numeric", s |-> MessageIdToken(Digits36)],
      [shape |-> "other", s |-> MessageIdToken(<<"a","b","c">>)],
      [shape |-> "other", s |-> MessageIdToken(Hex32)] }

UserTexts ==
    { [starts |-> a.label, shape |-> z.shape, text |-> a.s \o b \o z.s] :
        a \in TextStarts, b \in TextBodies, z \in TextEnds }

MaxParts == 3

T_part1 == <<"P","a","r","t"," ","1">>

T_part2_padded == <<" "," ","P","a","r","t"," ","2"," ","\n">>

\* the elements of a content array, each with the text it contributes
ContentParts ==
    { [v |-> TextPart(T_part1), text |-> T_part1],
      [v |-> TextPart(T_part2_padded), text |-> T_part2],
      [v |-> TextPart(<<>>), text |-> <<>>],
      [v |-> TextPart(<<" "," ","\n">>), text |-> <<>>],
      [v |-> ToolCallPart, text |-> <<>>],
      [v |-> Obj([type |-> Str(S_toolCall), text |-> Str(T_hello)]),
       text |-> <<>>],
      [v |-> ThinkingPart, text |-> <<>>],
      [v |-> Null, text |-> <<>>] }

\* the contents of an assistant turn: arrays of up to MaxParts elements, and
\* null, a string and a number
Contents ==
    { [v |-> Arr([i \in 1..Len(c) |-> c[i].v]), isArray |-> TRUE,
       texts |-> [i \in 1..Len(c) |-> c[i].text]] :
        c \in UNION {[1..n -> ContentParts] : n \in 0..MaxParts} }
    \cup { [v |-> x, isArray |-> FALSE, texts |-> <<>>] :
             x \in {Null, Str(T_hello), Num(42)} }

ImagePart == Obj([type |-> Str(<<"i","m","a","g","e">>)])

\* the elements of the content array of a user turn, each with the channel
\* its text tells ("none" for an element without text)
UserParts ==
    { [v |-> TextPart(T_hi \o MessageIdToken(UUID)), channel |-> "webchat"],
      [v |-> TextPart(T_hi \o MessageIdToken(<<"4","1","9">>)),
       channel |-> "telegram"],
      [v |-> TextPart(T_system \o MessageIdToken(UUID)), channel |-> "system"],
      [v |-> ImagePart, channel |-> "none"],
      [v |-> ToolCallPart, channel |-> "none"] }

\* the contents of a user turn: arrays of up to MaxParts elements, and
\* strings
UserContents ==
    { [v |-> Arr([i \in 1..Len(c) |-> c[i].v]),
       channels |-> [i \in 1..Len(c) |-> c[i].channel]] :
        c \in UNION {[1..n -> UserParts] : n \in 0..MaxParts} }
    \cup { [v |-> Str(T_hi \o MessageIdToken(UUID)), channels |-> <<"webchat">>],
           [v |-> Str(T_hi \o MessageIdToken(<<"4","1","9">>)),
            channels |-> <<"telegram">>] }

MaxShellLen == 3

\* the characters the shell treats specially inside double quotes, and an
\* ordinary one
ShellAlphabet == {"a", "\"", "\\", "$", GraveAccent}

\* the texts handed to the senders
SendTexts == UNION {[1..n -> ShellAlphabet] : n \in 0..MaxShellLen}

MaxOver == 2

\* texts of about maxLen characters, 'x'.repeat(n) with a digit in every
\* tenth place
LongText(n) == [i \in 1..n |-> IF i % 10 = 0 THEN Digits[((i \div 10) % 10) + 1] ELSE "x"]

LongTexts == {LongText(n) : n \in (maxLen - MaxOver)..(maxLen + MaxOver)}

\* the module is loaded and no helper was called
HelpersInit ==
    /\ daemon = "helpers"
    /\ lastEntry = [kind |-> "none"]
    /\ prevUserIsWebchat = FALSE
    /\ mirroredCache = <<>>
    /\ sent = <<>>
    /\ threw = FALSE
    /\ lastUser = NoUser
    /\ webchatRuns = EmptyMap
    /\ processedRuns = <<>>
    /\ timers = <<>>
    /\ triggers = <<>>
    /\ NoPoller
    /\ NoRotation
    /\ NoLogic

\* one call isWebchatUserMessage(x.text)
Call_isWebchatUserMessage(x) ==
    /\ daemon = "helpers"
    /\ lastEntry.kind = "none"
    /\ lastEntry' = [kind |-> "isWebchatUserMessage", starts |-> x.starts,
                     shape |-> x.shape, text |-> x.text,
                     returned |-> isWebchatUserMessage(Str(x.text))]
    /\ UNCHANGED <<prevUserIsWebchat, mirroredCache, sent, threw, lastUser,
                   runVars, pollVars, logicVars>>

\* one call extractAssistantText(c.v), and what processLine sends for an
\* assistant turn of that content after a webchat user turn
Call_extractAssistantText(c) ==
    /\ daemon = "helpers"
    /\ lastEntry.kind = "none"
    /\ lastEntry' =
          [kind |-> "extractAssistantText", isArray |-> c.isArray,
           texts |-> c.texts,
           returned |-> extractAssistantText(c.v).text,
           forwarded |->
              LET r == processLine(TRUE, <<>>,
                          ParseTurnLine(MessageLine(S_assistant, c.v)), TRUE)
              IN [i \in 1..Len(r.out) |-> r.out[i].text]]
    /\ UNCHANGED <<prevUserIsWebchat, mirroredCache, sent, threw, lastUser,
                   runVars, pollVars, logicVars>>

\* one call processLine(line) of a user turn with content c.v, from the
\* state where the flag is clear: the flag afterwards
Call_processUserTurn(c) ==
    /\ daemon = "helpers"
    /\ lastEntry.kind = "none"
    /\ lastEntry' =
          [kind |-> "processLine user", channels |-> c.channels,
           isArray |-> c.v.t = "arr",
           flag |-> processLine(FALSE, <<>>,
                        ParseTurnLine(MessageLine(S_user, c.v)), TRUE).prev]
    /\ UNCHANGED <<prevUserIsWebchat, mirroredCache, sent, threw, lastUser,
                   runVars, pollVars, logicVars>>

MaxScanLines == 2

\* the lines a session file may hold when a session is initialised: user
\* turns with array content and with plain-string content, an assistant
\* turn, a toolResult turn and malformed lines
ScanEntries ==
    PollEntries \cup
    { Entry(MessageLine(S_user, Str(T_hi \o MessageIdToken(UUID))),
            "user string", "webchat", <<>>),
      Entry(UserLine(T_telegram \o MessageIdToken(<<"5","0","0">>)),
            "user", "telegram", <<>>),
      Entry(MessageLine(S_user, Str(T_telegram \o MessageIdToken(<<"5","0","0">>))),
            "user string", "telegram", <<>>),
      Entry(MessageLine(S_toolResult, Arr(<<TextPart(T_done)>>)),
            "other", "na", <<>>) }

\* the session files of up to MaxScanLines lines
ScanFiles ==
    UNION { [1..n -> ScanEntries] : n \in 0..MaxScanLines }

\* the flag after processLine was called on the first i lines in order,
\* from the flag of a fresh session; a call that throws leaves it as it was
RECURSIVE FlagAfter(_, _)
FlagAfter(lines, i) ==
    IF i = 0 THEN FALSE
    ELSE processLine(FlagAfter(lines, i - 1), <<>>, lines[i].p, TRUE).prev

\* the initialising scan of watchSession on the file f, beside the flag that
\* processLine reaches on the same lines
Call_initialScan(f) ==
    /\ daemon = "helpers"
    /\ lastEntry.kind = "none"
    /\ lastEntry' =
          [kind |-> "initial scan",
           lines |-> [i \in 1..Len(f) |-> f[i].kind],
           flag |-> InitialScan(f, Len(f)),
           replayed |-> FlagAfter(f, Len(f))]
    /\ UNCHANGED <<prevUserIsWebchat, mirroredCache, sent, threw, lastUser,
                   runVars, pollVars, logicVars>>

\* the --message arguments of the calls made
MessagesOf(out) == [i \in 1..Len(out) |-> out[i].message]

\* one call sendToTelegram(t) of the turn-flag daemon, with an empty cache
Call_sendToTelegram(t) ==
    /\ daemon = "helpers"
    /\ lastEntry.kind = "none"
    /\ lastEntry' = [kind |-> "send", sender |-> "sendToTelegram", text |-> t,
                     messages |-> MessagesOf(sendToTelegram(<<>>, Str(t), TRUE).out)]
    /\ UNCHANGED <<prevUserIsWebchat, mirroredCache, sent, threw, lastUser,
                   runVars, pollVars, logicVars>>

\* one call of the setTimeout callback of the run-correlation daemon that
\* finds the text t, with an empty cache
Call_Run_sendToTelegram(t) ==
    /\ daemon = "helpers"
    /\ lastEntry.kind = "none"
    /\ lastEntry' = [kind |-> "send", sender |-> "Run_sendToTelegram", text |-> t,
                     messages |-> MessagesOf(Run_lookup(<<>>, Str(t), TRUE).out)]
    /\ UNCHANGED <<prevUserIsWebchat, mirroredCache, sent, threw, lastUser,
                   runVars, pollVars, logicVars>>

\* one call sendToTarget(t) of a fresh MirrorLogLogic; false is returned
\* for the empty text and no command is built
Call_sendToTarget(t) ==
    /\ daemon = "helpers"
    /\ lastEntry.kind = "none"
    /\ lastEntry' = [kind |-> "send", sender |-> "sendToTarget", text |-> t,
                     messages |->
                        LET r == sendToTarget(<<>>, Str(t), 10)
                        IN IF Truthy(Str(t)) THEN <<r.returned>> ELSE <<>>]
    /\ UNCHANGED <<prevUserIsWebchat, mirroredCache, sent, threw, lastUser,
                   runVars, pollVars, logicVars>>

HelpersNext ==
    \/ \E x \in UserTexts : Call_isWebchatUserMessage(x)
    \/ \E c \in Contents : Call_extractAssistantText(c)
    \/ \E c \in UserContents : Call_processUserTurn(c)
    \/ \E f \in ScanFiles : Call_initialScan(f)
    \/ \E t \in SendTexts \cup LongTexts : Call_sendToTelegram(t)
    \/ \E t \in SendTexts \cup LongTexts : Call_Run_sendToTelegram(t)
    \/ \E t \in SendTexts \cup LongTexts : Call_sendToTarget(t)

SpecHelpers == HelpersInit /\ [][HelpersNext]_vars

\* --------------------------------------------- run-correlation: claims

IgnoredTexts ==
    { Null, Str(<<>>), Str(<<" "," "," ">>), Str(<<"\n"," ">>),
      Str(T_echo), Str(T_echo_middle), Str(T_echo_suffix), Str(MIRROR_TAG) }

Sendable(text) == ~Includes(text, MIRROR_TAG) /\ Trim(text) # <<>>

\* C2: shouldIgnore is true of null, empty and whitespace-only text and of
\* every text that contains the mirror marker tag (as prefix, in the middle
\* or as suffix), and no such text is ever passed to sendToTelegram by the
\* delayed lookup: none is sent and none enters mirroredCache.
C2_IgnoredNeverSent ==
    /\ \A t \in IgnoredTexts : shouldIgnore(t)
    /\ \A i \in 1..Len(sent) : Sendable(sent[i].text)
    /\ \A i \in 1..Len(mirroredCache) : Sendable(mirroredCache[i])

\* C2 witness: after a send, a lookup has found a text that carries the
\* marker in the middle.
C2_Witness ==
    /\ lastEntry.kind = "timer"
    /\ lastEntry.found = Str(T_echo_middle)
    /\ Len(sent) > 0

Pending == DOMAIN webchatRuns

\* C7: webchatRuns gets an entry only from a RunStart line whose
\* messageChannel is webchat, which maps the runId to the sessionId of that
\* line; a RunStart of another channel inserts nothing and no other event
\* adds or changes an entry.
C7_OnlySourceRunsPending ==
    [][/\ (lastEntry'.kind = "start" /\ lastEntry'.channel = S_webchat) =>
             /\ DOMAIN webchatRuns' = Pending \cup {lastEntry'.run}
             /\ webchatRuns'[lastEntry'.run] = lastEntry'.session
             /\ \A r \in Pending \ {lastEntry'.run} :
                    webchatRuns'[r] = webchatRuns[r]
       /\ (lastEntry'.kind = "start" /\ lastEntry'.channel # S_webchat) =>
             webchatRuns' = webchatRuns
       /\ lastEntry'.kind # "start" =>
             \A r \in DOMAIN webchatRuns' :
                 r \in Pending /\ webchatRuns'[r] = webchatRuns[r]]_vars

\* C7 witness: a telegram RunStart has been processed while another run is
\* pending, and its run is not pending.
C7_Witness ==
    /\ lastEntry.kind = "start"
    /\ lastEntry.channel = S_telegram
    /\ lastEntry.run \notin Pending
    /\ Pending # {}

NoEffect ==
    UNCHANGED <<webchatRuns, processedRuns, timers, triggers, mirroredCache, sent>>

\* C8: a RunDone line whose runId is not in webchatRuns schedules no lookup
\* and leaves webchatRuns, processedRuns and mirroredCache unchanged.
C8_UnmatchedDoneIgnored ==
    [][(lastEntry'.kind = "done" /\ lastEntry'.run \notin Pending)
          => NoEffect]_vars

\* C8 witness: a RunDone line has been processed for a run that was never
\* pending, while a webchat run is pending and nothing has been scheduled.
C8_Witness ==
    /\ lastEntry.kind = "done"
    /\ ~CacheHas(processedRuns, lastEntry.run)
    /\ Pending # {}
    /\ triggers = <<>>

MatchedDone == lastEntry'.kind = "done" /\ lastEntry'.run \in Pending

Scheduled ==
    /\ CacheHas(processedRuns', lastEntry'.run)
    /\ timers' = Append(timers, [runId |-> lastEntry'.run,
                                 sessionId |-> webchatRuns[lastEntry'.run]])
    /\ triggers' = Append(triggers, [runId |-> lastEntry'.run,
                                     sessionId |-> webchatRuns[lastEntry'.run]])

\* C9 as stated: a RunDone line whose runId is in webchatRuns removes the
\* entry, inserts the runId into processedRuns and schedules exactly one
\* lookup carrying the sessionId recorded at RunStart; run tool start/end
\* lines change nothing.
C9_MatchedDoneSchedules ==
    [][/\ MatchedDone => (lastEntry'.run \notin DOMAIN webchatRuns' /\ Scheduled)
       /\ lastEntry'.kind = "tool" => NoEffect]_vars

\* C9 amended: a RunDone line whose runId is in webchatRuns removes the
\* entry and, unless the runId is already in processedRuns, inserts it into
\* processedRuns and schedules exactly one lookup carrying the sessionId
\* recorded at RunStart; when the runId is already in processedRuns nothing
\* is scheduled.  Run tool start/end lines change nothing.
C9_MatchedDoneSchedulesUnlessProcessed ==
    [][/\ MatchedDone =>
             /\ lastEntry'.run \notin DOMAIN webchatRuns'
             /\ \A r \in Pending \ {lastEntry'.run} :
                    r \in DOMAIN webchatRuns' /\ webchatRuns'[r] = webchatRuns[r]
             /\ IF CacheHas(processedRuns, lastEntry'.run)
                THEN UNCHANGED <<processedRuns, timers, triggers>>
                ELSE Scheduled
       /\ lastEntry'.kind = "tool" => NoEffect]_vars

\* C9 witness: the RunDone line of a pending run has been processed and its
\* lookup is pending under the session of the RunStart line, which is not
\* the session the RunDone line names.
C9_Witness ==
    /\ lastEntry.kind = "done"
    /\ lastEntry.run \notin Pending
    /\ CacheHas(processedRuns, lastEntry.run)
    /\ \E i \in 1..Len(timers) :
           /\ timers[i].runId = lastEntry.run
           /\ timers[i].sessionId # lastEntry.session

\* C10: a RunDone line delivered a second time, right after its first
\* delivery, changes nothing: no second lookup is scheduled for the run and
\* webchatRuns and processedRuns stay as the first delivery left them.
C10_DoneIdempotent ==
    [][(lastEntry'.kind = "done" /\ lastEntry'.again) =>
          /\ NoEffect
          /\ Cardinality({i \in 1..Len(triggers') :
                             triggers'[i].runId = lastEntry'.run}) <= 1]_vars

\* C10 witness: the RunDone line of a webchat run has been delivered twice
\* in a row and exactly one lookup was scheduled for the run.
C10_Witness ==
    /\ lastEntry.kind = "done"
    /\ lastEntry.again
    /\ Cardinality({i \in 1..Len(triggers) :
                       triggers[i].runId = lastEntry.run}) = 1

TriggersOf(seq, r) == Cardinality({i \in 1..Len(seq) : seq[i].runId = r})

\* C11: while a runId is in processedRuns no step schedules a further
\* lookup for it, and a RunDone line delivered again after its RunStart
\* line was delivered again (the run is both in webchatRuns and in
\* processedRuns) removes the webchatRuns entry and schedules nothing.
C11_ProcessedRunNotTriggeredAgain ==
    [][/\ \A r \in RunIds :
              CacheHas(processedRuns, r) =>
                 /\ TriggersOf(triggers', r) = TriggersOf(triggers, r)
                 /\ TriggersOf(timers', r) <= TriggersOf(timers, r)
       /\ (MatchedDone /\ CacheHas(processedRuns, lastEntry'.run)) =>
              /\ lastEntry'.run \notin DOMAIN webchatRuns'
              /\ UNCHANGED <<processedRuns, timers, triggers>>]_vars

\* C11 witness: a RunDone line has been processed for a run that was in
\* webchatRuns again and already in processedRuns; the entry is gone and
\* the run has had one lookup.
C11_Witness ==
    /\ lastEntry.kind = "done"
    /\ lastEntry.tracked
    /\ lastEntry.known
    /\ lastEntry.run \notin Pending
    /\ TriggersOf(triggers, lastEntry.run) = 1

\* ---------------------------------------------- turn-flag poller: claims

\* a poll of the turn-flag daemon that reads new lines
PollReads ==
    /\ lastEntry'.kind = "poll"
    /\ Len(lastEntry'.lines) > lastEntry'.from

\* the new lines a poll reads hold a malformed line
MalformedAmongNew ==
    \E i \in (lastEntry'.from + 1)..Len(lastEntry'.lines) :
        lastEntry'.lines[i] = "malformed"

\* C6: a malformed line never stalls the stream of the turn-flag daemon: a
\* poll whose new lines hold a malformed line passes every new line, the
\* ones after the malformed line included, to processLine, and lastLineCount
\* ends past the malformed line, at the number of lines read
C6_MalformedNeverStalls ==
    [][(PollReads /\ MalformedAmongNew)
        => /\ lastLineCount' = Len(lastEntry'.lines)
           /\ delivered' = [i \in 1..(Len(lastEntry'.lines) - lastEntry'.from)
                               |-> lastEntry'.from + i]]_vars

\* the step is a poll in which an execSync call fails
PollSendFails ==
    /\ lastEntry'.kind = "poll"
    /\ \E j \in (Len(sent) + 1)..Len(sent') : ~sent'[j].ok

\* C15: a failed send does not block the stream of the turn-flag daemon: a
\* poll in which an execSync call fails still passes the new lines to
\* processLine in file order, up to the end of the file or to the first
\* line on which processLine itself throws (the line null), and the failed
\* call raises no exception of its own.
C15_FailedSendDoesNotBlock ==
    [][PollSendFails =>
          LET lines == files[activeSession]
              from == lastEntry'.from
              stops == {i \in (from + 1)..Len(lines) : lines[i].p.what = "throw"}
              last == IF stops = {} THEN Len(lines)
                      ELSE CHOOSE i \in stops : \A k \in stops : i <= k
          IN /\ delivered' = [i \in 1..(last - from) |-> from + i]
             /\ threw' = (stops # {})
             /\ stops = {} => lastLineCount' = Len(lines)]_vars

\* C15 witness: one poll read a webchat user turn, an assistant turn whose
\* send failed, and a further user turn: all lines were passed on, the
\* last user turn set the flag and lastLineCount is at the end of the file.
C15_Witness ==
    /\ lastEntry.kind = "poll"
    /\ lastEntry.from = 0
    /\ lastEntry.lines = <<"user", "assistant", "user", "blank">>
    /\ Len(sent) = 1
    /\ ~sent[1].ok
    /\ delivered = <<1, 2, 3, 4>>
    /\ ~threw
    /\ prevUserIsWebchat
    /\ lastLineCount = 4

\* the step is a poll of a session file none of whose lines makes
\* processLine throw
PollOfSoundFile ==
    /\ lastEntry'.kind = "poll"
    /\ files[activeSession] # "missing"
    /\ \A i \in 1..Len(files[activeSession]) :
           files[activeSession][i].p.what # "throw"

\* C19: every line appended to the active session file after the session
\* was initialised is passed to processLine exactly once and in file
\* order: after each poll, each line of text of the file beyond those it
\* held at initialisation has been passed on once, and the lines a poll
\* passes on are in increasing file position.  (Lines on which processLine
\* throws are left aside.)
C19_EveryAppendedLineOnce ==
    [][PollOfSoundFile =>
          /\ \A i \in 1..Len(files[activeSession]) :
                 (files[activeSession][i].kind # "blank" /\ i > stream'.initial)
                    => stream'.times[i] = 1
          /\ \A j \in 1..Len(delivered'), k \in 1..Len(delivered') :
                 j < k => delivered'[j] < delivered'[k]]_vars

\* whether the last user turn of a file is a webchat one
LastUserIsWebchat(lines) ==
    IF lines = "missing" THEN FALSE
    ELSE LET users == {i \in 1..Len(lines) : lines[i].kind = "user"}
         IN IF users = {} THEN FALSE
            ELSE lines[CHOOSE i \in users : \A k \in users : k <= i].origin
                    = "webchat"

\* C20: a poll that finds another active session resets the correlation
\* state in that step and passes no line on: afterwards lastLineCount is
\* the number of lines split from the new file (0 when it does not exist)
\* and prevUserIsWebchat tells whether the last user turn of the new file
\* is a webchat one (false when there is none), whatever the previous
\* session left.  A poll that sends has passed on an assistant turn of the
\* active session's file, and that file holds a webchat user turn.
C20_SwitchResetsState ==
    [][/\ (lastEntry'.kind = "poll" /\ lastEntry'.switched) =>
              /\ currentSessionId' = activeSession
              /\ lastLineCount' = IF files[activeSession] = "missing" THEN 0
                                  ELSE Len(files[activeSession])
              /\ prevUserIsWebchat' = LastUserIsWebchat(files[activeSession])
              /\ delivered' = <<>>
              /\ sent' = sent
       /\ (lastEntry'.kind = "poll" /\ sent' # sent) =>
              \E i \in 1..Len(files[activeSession]), k \in 1..Len(delivered') :
                 /\ files[activeSession][i].kind = "user"
                 /\ files[activeSession][i].origin = "webchat"
                 /\ files[activeSession][delivered'[k]].kind = "assistant"]_vars

\* C20 witness: after a send in session s1, whose flag was set, a poll has
\* switched to session s2, whose file holds an assistant turn and no user
\* turn: the flag is clear and lastLineCount is the length of the new file.
C20_Witness ==
    /\ lastEntry.kind = "poll"
    /\ lastEntry.switched
    /\ currentSessionId = "s2"
    /\ Len(sent) > 0
    /\ ~prevUserIsWebchat
    /\ files["s2"] # "missing"
    /\ lastLineCount = Len(files["s2"])
    /\ \E i \in 1..Len(files["s2"]) : files["s2"][i].kind = "assistant"
    /\ \A i \in 1..Len(files["s2"]) : files["s2"][i].kind # "user"

\* C22: no line that the session file held when the turn-flag daemon
\* initialised the session (at its first poll or at a session switch) is
\* ever passed to processLine, so none is forwarded: every line a poll
\* passes on lies behind them, and a poll that sends has passed on an
\* assistant turn appended later.
C22_OldLinesNotMirrored ==
    [][lastEntry'.kind = "poll" =>
          /\ \A i \in 1..stream'.initial : stream'.times[i] = 0
          /\ \A k \in 1..Len(delivered') : delivered'[k] > stream'.initial
          /\ sent' # sent =>
                \E k \in 1..Len(delivered') :
                   /\ delivered'[k] > stream'.initial
                   /\ files[activeSession][delivered'[k]].kind = "assistant"]_vars

\* C22 witness: the file of the session held a webchat user turn and
\* the assistant turn after it when the session was initialised; a later
\* poll has passed on what was appended since, the flag is set, and
\* nothing was sent.
C22_Witness ==
    /\ lastEntry.kind = "poll"
    /\ ~lastEntry.switched
    /\ stream.initial = 2
    /\ files[currentSessionId][1].kind = "user"
    /\ files[currentSessionId][2].kind = "assistant"
    /\ prevUserIsWebchat
    /\ delivered # <<>>
    /\ sent = <<>>

\* ------------------------------------------------ bounded caches: claims

\* the distinct texts other than sent[i].text sent between the calls i and j
OthersBetween(i, j) ==
    {sent[k].text : k \in (i + 1)..(j - 1)} \ {sent[i].text}

\* C16: a text that is in mirroredCache is not sent again: a step that
\* calls execSync does so for a text that was not cached, and between two
\* calls for the same text at least CACHE_SIZE other distinct texts were
\* sent (and so accepted into the cache).
C16_CachedTextNotResent ==
    [][/\ \A k \in (Len(sent) + 1)..Len(sent') :
              ~CacheHas(mirroredCache, sent'[k].text)
       /\ \A i \in 1..Len(sent'), j \in (Len(sent) + 1)..Len(sent') :
              (i < j /\ sent'[i].text = sent'[j].text) =>
                 Cardinality({sent'[k].text : k \in (i + 1)..(j - 1)}
                             \ {sent'[i].text}) >= CACHE_SIZE]_vars

\* C16 witness: message-1 has been sent twice by the turn-flag daemon, the
\* second time after it left the cache.
C16_Witness ==
    /\ daemon = "turn-flag"
    /\ \E i \in 1..Len(sent), j \in 1..Len(sent) :
           /\ i < j
           /\ sent[i].text = NumText(1)
           /\ sent[j].text = NumText(1)
           /\ Cardinality(OthersBetween(i, j)) >= CACHE_SIZE

\* C17: the caches are bounded in every reachable state: mirroredCache of
\* the daemons holds at most CACHE_SIZE texts, the cache of a MirrorLogLogic
\* at most cacheSize texts and processedRuns at most PROCESSED_RUNS_MAX
\* runIds.
C17_CachesBounded ==
    /\ Len(mirroredCache) <= CACHE_SIZE
    /\ Len(logicCache) <= cacheSize
    /\ Len(processedRuns) <= PROCESSED_RUNS_MAX

\* a cache is full and more distinct items than it holds have been put in
FullAfterEviction(cache, bound, inserted) ==
    Len(cache) = bound /\ inserted > bound

\* mirroredCache of the turn-flag daemon is full after CACHE_SIZE + 1 texts
\* were sent
TurnCacheFull ==
    /\ daemon = "turn-flag"
    /\ FullAfterEviction(mirroredCache, CACHE_SIZE, KnownTexts)

\* the cache of a MirrorLogLogic of cacheSize 3 is full and no longer holds
\* message-1
LogicCacheFull ==
    /\ daemon = "logic"
    /\ cacheSize = 3
    /\ Len(logicCache) = 3
    /\ ~CacheHas(logicCache, NumText(1))

\* C17 witness: processedRuns and mirroredCache of the run-correlation
\* daemon are both full after PROCESSED_RUNS_MAX + 1 runs were looked up
\* and more than CACHE_SIZE texts were sent.
C17_Witness ==
    /\ daemon = "run-correlation"
    /\ FullAfterEviction(processedRuns, PROCESSED_RUNS_MAX, KnownRuns)
    /\ FullAfterEviction(mirroredCache, CACHE_SIZE, KnownTexts)

\* a cache bounded at bound after the insertion of the new item x: the
\* oldest entry makes room when the cache is full
FifoInsert(cache, x, bound) ==
    IF Len(cache) < bound THEN Append(cache, x) ELSE Append(Tail(cache), x)

\* the texts sent so far that sendToTelegram would send again
Eligible(cache, calls) ==
    {calls[k].text : k \in {i \in 1..Len(calls) :
        sendToTelegram(cache, Str(calls[i].text), TRUE).out # <<>>}}

\* C18: eviction is first-in-first-out: an insertion into a full cache
\* removes exactly the oldest entry (mirroredCache, the cache of a
\* MirrorLogLogic and processedRuns alike), nothing else changes a cache,
\* and once CACHE_SIZE + 1 distinct texts have been sent the first of them,
\* and no other, is sent again when it is detected again.
C18_EvictionIsFifo ==
    [][/\ \A k \in (Len(sent) + 1)..Len(sent') :
              mirroredCache' = FifoInsert(mirroredCache, sent'[k].text, CACHE_SIZE)
       /\ Len(sent') = Len(sent) => mirroredCache' = mirroredCache
       /\ lastEntry'.kind = "sendToTarget" =>
              logicCache' = IF CacheHas(logicCache, lastEntry'.text)
                            THEN logicCache
                            ELSE FifoInsert(logicCache, lastEntry'.text, cacheSize)
       /\ Len(triggers') > Len(triggers) =>
              processedRuns' = FifoInsert(processedRuns,
                                          triggers'[Len(triggers')].runId,
                                          PROCESSED_RUNS_MAX)
       /\ Len(triggers') = Len(triggers) => processedRuns' = processedRuns
       /\ (Len(sent') = CACHE_SIZE + 1
           /\ Cardinality({sent'[k].text : k \in 1..Len(sent')}) = CACHE_SIZE + 1) =>
              Eligible(mirroredCache', sent') = {sent'[1].text}]_vars

\* C18 witness: the turn-flag daemon has sent CACHE_SIZE + 1 distinct texts
\* and then message-1, the first of them, a second time: message-2 has
\* left mirroredCache in turn and message-1 is its newest entry.
C18_Witness ==
    /\ daemon = "turn-flag"
    /\ Len(sent) = CACHE_SIZE + 2
    /\ sent[1].text = NumText(1)
    /\ sent[CACHE_SIZE + 2].text = NumText(1)
    /\ lastEntry.text = NumText(1)
    /\ mirroredCache[1] = NumText(3)
    /\ mirroredCache[CACHE_SIZE] = NumText(1)

\* ------------------------------------------------------ helpers: claims

\* C23: isWebchatUserMessage is false of every text that begins with
\* '[Telegram', 'System:', '[Queued' or '[Audio]', whatever message_id it
\* carries, and of every text without a '[message_id: <id>]' token.
C23_ExcludedPrefixWins ==
    lastEntry.kind = "isWebchatUserMessage" =>
        ((lastEntry.starts # "none" \/ lastEntry.shape = "none")
            => ~lastEntry.returned)

\* C23 witness: a text that begins with '[Queued' and ends with a UUID
\* message_id token was classified, as not from the source channel.
C23_Witness ==
    /\ lastEntry.kind = "isWebchatUserMessage"
    /\ lastEntry.starts = "queued"
    /\ lastEntry.shape = "uuid"
    /\ ~lastEntry.returned

\* C24: for a text without excluded prefix that carries a message_id token,
\* isWebchatUserMessage is true exactly when the id has the UUID shape; a
\* purely numeric id of any length and any other id give false.
C24_UuidShapeOnly ==
    (/\ lastEntry.kind = "isWebchatUserMessage"
     /\ lastEntry.starts = "none"
     /\ lastEntry.shape # "none")
        => (lastEntry.returned <=> lastEntry.shape = "uuid")

\* the texts, in order, with a blank line between them
RECURSIVE WithBlankLines(_)
WithBlankLines(texts) ==
    IF texts = <<>> THEN <<>>
    ELSE IF Len(texts) = 1 THEN texts[1]
    ELSE texts[1] \o <<"\n", "\n">> \o WithBlankLines(Tail(texts))

\* C25: extractAssistantText returns the trimmed texts of the text elements
\* with non-empty text, in order and joined by a blank line; tool-call,
\* thinking, null and empty or whitespace-only elements are skipped; when
\* nothing remains, or content is no array, it returns null and processLine
\* forwards nothing; otherwise processLine forwards exactly that text.
C25_AssistantTextIsJoinedTexts ==
    lastEntry.kind = "extractAssistantText" =>
        LET kept == SelectSeq(lastEntry.texts, LAMBDA t : t # <<>>)
        IN IF kept = <<>>
           THEN lastEntry.returned = Null /\ lastEntry.forwarded = <<>>
           ELSE /\ lastEntry.returned = Str(WithBlankLines(kept))
                /\ lastEntry.forwarded = <<WithBlankLines(kept)>>

\* C25 witness: a content array of a padded text element, a skipped element
\* and another text element was read: the two trimmed texts came back with
\* a blank line between them.
C25_Witness ==
    /\ lastEntry.kind = "extractAssistantText"
    /\ lastEntry.texts = <<T_part2, <<>>, T_part1>>
    /\ lastEntry.returned = Str(T_part2 \o <<"\n", "\n">> \o T_part1)
    /\ lastEntry.forwarded = <<T_part2 \o <<"\n", "\n">> \o T_part1>>

\* C26: the channel of a user turn is told by the text of the first
\* text-bearing content element (elements without text before it are passed
\* over), and a plain-string content is used as is: the flag is set exactly
\* when that text is a webchat one.
C26_FirstTextBearingElement ==
    lastEntry.kind = "processLine user" =>
        LET bearing == SelectSeq(lastEntry.channels, LAMBDA c : c # "none")
        IN lastEntry.flag <=> (bearing # <<>> /\ bearing[1] = "webchat")

\* the characters after which a "$" starts an expansion in a POSIX shell
ExpansionStart ==
    Lower \cup Upper \cup Digit
    \cup {"_", "{", "(", "@", "*", "#", "?", "-", "$", "!"}

\* A POSIX shell reading the characters m that follow an opening double
\* quote, up to the closing quote the command puts after them: safe tells
\* that no character of m ends the quoted argument, starts an expansion or
\* a command substitution, or escapes the closing quote; value is the
\* argument then.
RECURSIVE ShellQuoted(_, _, _)
ShellQuoted(m, i, acc) ==
    IF i > Len(m) THEN [safe |-> TRUE, value |-> acc]
    ELSE IF m[i] = "\\"
    THEN (IF i = Len(m) THEN [safe |-> FALSE, value |-> acc]
          ELSE IF m[i + 1] \in {"$", GraveAccent, "\"", "\\"}
          THEN ShellQuoted(m, i + 2, Append(acc, m[i + 1]))
          ELSE IF m[i + 1] = "\n" THEN ShellQuoted(m, i + 2, acc)
          ELSE ShellQuoted(m, i + 1, Append(acc, m[i])))
    ELSE IF m[i] \in {"\"", GraveAccent} THEN [safe |-> FALSE, value |-> acc]
    ELSE IF m[i] = "$" /\ i < Len(m) /\ m[i + 1] \in ExpansionStart
    THEN [safe |-> FALSE, value |-> acc]
    ELSE ShellQuoted(m, i + 1, Append(acc, m[i]))

\* C27: for every text over double quote, backslash, dollar, grave accent
\* and an ordinary character, each sender builds a --message argument that a
\* POSIX shell reads as marker, space and the text: no character of the text
\* ends the quoted argument or starts an expansion.
C27_EscapedForShell ==
    (lastEntry.kind = "send" /\ lastEntry.text \in SendTexts) =>
        \A i \in 1..Len(lastEntry.messages) :
            LET parsed == ShellQuoted(lastEntry.messages[i], 1, <<>>)
            IN /\ parsed.safe
               /\ parsed.value = MIRROR_TAG \o <<" ">> \o lastEntry.text

\* C28: the two daemons send a text of at most 3900 characters unchanged
\* and a longer one as its first 3900 characters followed by
\* '\n\n[...truncated]', so the body is never longer than 3900 characters
\* plus the marker (texts without characters to escape).
C28_TruncatedAt3900 ==
    (/\ lastEntry.kind = "send"
     /\ lastEntry.sender \in {"sendToTelegram", "Run_sendToTelegram"}
     /\ lastEntry.text # <<>>
     /\ \A k \in 1..Len(lastEntry.text) :
            lastEntry.text[k] \notin {"\"", "\\", "$", GraveAccent})
        => /\ Len(lastEntry.messages) = 1
           /\ LET body == SubSeq(lastEntry.messages[1], Len(MIRROR_TAG) + 2,
                                 Len(lastEntry.messages[1]))
                  marker == <<"\n","\n","[",".",".",".","t","r","u","n","c",
                              "a","t","e","d","]">>
              IN /\ Len(lastEntry.text) <= 3900 => body = lastEntry.text
                 /\ Len(lastEntry.text) > 3900 =>
                        body = SubSeq(lastEntry.text, 1, 3900) \o marker
                 /\ Len(body) <= 3900 + Len(marker)

\* C28 witness: a text of 3901 characters was sent by the turn-flag daemon
\* as 3900 characters and the marker.
C28_Witness ==
    /\ lastEntry.kind = "send"
    /\ lastEntry.sender = "sendToTelegram"
    /\ Len(lastEntry.text) = 3901
    /\ Len(lastEntry.messages) = 1
    /\ Len(lastEntry.messages[1]) = Len(MIRROR_TAG) + 1 + 3900 + 16

\* C29: every --message argument built by sendToTelegram of either daemon
\* and by MirrorLogLogic.sendToTarget starts with '[mirrored]' and a space.
C29_MessageStartsWithTag ==
    lastEntry.kind = "send" =>
        \A i \in 1..Len(lastEntry.messages) :
            StartsWith(lastEntry.messages[i],
                       <<"[","m","i","r","r","o","r","e","d","]"," ">>)

\* C29 witness: the run-correlation daemon has sent a text that begins with
\* a double quote; its message begins with the tag and a space.
C29_Witness ==
    /\ lastEntry.kind = "send"
    /\ lastEntry.sender = "Run_sendToTelegram"
    /\ lastEntry.text = <<"\"", "a">>
    /\ lastEntry.messages =
          <<<<"[","m","i","r","r","o","r","e","d","]"," ","\\","\"","a">>>>

\* ------------------------------------------------ MirrorLogLogic: claims

\* C30: while the text that shouldMirror returns for a line is in the cache
\* (sendToTarget was called with it and it was not evicted), shouldMirror
\* returns null for that line, whatever whitespace its content begins or
\* ends with.
C30_RepeatedLineNotMirrored ==
    [][(/\ lastEntry'.kind = "shouldMirror"
        /\ lastEntry'.text # <<>>
        /\ CacheHas(logicCache, lastEntry'.text))
          => lastEntry'.returned = Null]_vars

\* C31: shouldMirror returns null for every log line whose _meta.name does
\* not name webchat, whatever its content is.
C31_OtherChannelsNotMirrored ==
    (lastEntry.kind = "shouldMirror" /\ lastEntry.channel # "webchat")
        => lastEntry.returned = Null

\* ------------------------------------------------------- shutdown signals

\* the SIGTERM / SIGINT handler of the turn-flag daemon: process.exit(0).
\* Node runs it between two callbacks, never inside one, so a handler that
\* is running (its blocking execSync included) returns first
Shutdown ==
    /\ daemon = "turn-flag"
    /\ daemon' = "exited"
    /\ UNCHANGED <<cacheSize, logicCache, turnVars, runVars, pollVars>>

\* the SIGTERM / SIGINT handler of the run-correlation daemon: the tail is
\* killed and the process exits; the pending setTimeout callbacks go with it
Run_Shutdown ==
    /\ daemon = "run-correlation"
    /\ daemon' = "exited"
    /\ UNCHANGED <<cacheSize, logicCache, turnVars, runVars, pollVars>>

ShutdownNext ==
    \/ \E e \in TurnEntries, ok \in BOOLEAN : ProcessLine(e, ok)
    \/ \E e \in RunEntries : Run_ProcessLine(e)
    \/ \E text \in LastTexts, ok \in BOOLEAN : Run_TimerFires(text, ok)
    \/ Shutdown
    \/ Run_Shutdown

\* either daemon, from its start to a shutdown signal
SpecShutdown == (TurnInit \/ RunInit) /\ [][ShutdownNext]_vars

\* C32: once the shutdown signal has been handled nothing happens any more:
\* no line is processed, no send is started, and a trigger whose delayed
\* lookup has not fired is never looked up or sent.  A send is never cut
\* short by the handler: each step that starts one also holds its outcome.
C32_NothingAfterExit ==
    [][daemon = "exited" => UNCHANGED vars]_vars

\* the run-correlation daemon has exited with a send made and a trigger whose
\* lookup had not fired
C32_Witness ==
    /\ daemon = "exited"
    /\ Len(sent) > 0
    /\ Len(timers) > 0

\* ------------------------------------------- turn-flag: the flag's frame

\* C33: in the turn-flag daemon only a user turn changes prevUserIsWebchat:
\* every user turn sets it to (the turn comes from webchat), and an assistant
\* turn (with or without text, sent or not), a toolResult turn, an entry
\* without a message and a malformed line leave it as it was.
C33_OnlyUserTurnsSetFlag ==
    [][IF lastEntry'.kind = "user"
       THEN prevUserIsWebchat' = (lastEntry'.origin = "webchat")
       ELSE prevUserIsWebchat' = prevUserIsWebchat]_vars

\* a toolResult or metadata line was processed after a forwarded reply and
\* the flag is still set
C33_Witness ==
    /\ daemon = "turn-flag"
    /\ prevUserIsWebchat
    /\ lastEntry.kind = "other"
    /\ lastUser.origin = "webchat"
    /\ lastUser.answered
    /\ Len(sent) > 0

\* ------------------------------------- turn-flag: a truncated session file

\* the file of session s is truncated to no content (its rotation): what is
\* written to it from now on was not there when the session was initialised
TruncateFile(s) ==
    /\ daemon = "turn-flag"
    /\ files[s] # "missing"
    /\ Len(files[s]) > 1
    /\ files' = [files EXCEPT ![s] = <<EmptyLine>>]
    /\ stream' = IF s = currentSessionId
                 THEN [NoStream(0) EXCEPT !.cut = TRUE]
                 ELSE stream
    /\ lastEntry' = [kind |-> "truncate", switched |-> FALSE, from |-> 0,
                     lines |-> <<>>]
    /\ UNCHANGED <<prevUserIsWebchat, mirroredCache, sent, threw, lastUser,
                   currentSessionId, lastLineCount, activeSession, delivered,
                   writes, runVars, logicVars>>

\* the poller over one session whose file is appended to and truncated
TruncateNext ==
    \/ SetActiveSession("s1")
    \/ \E e \in PollEntries : WriteLine("s1", e)
    \/ TruncateFile("s1")
    \/ \E ok \in BOOLEAN : watchSession(ok)

SpecTruncate == PollInit /\ [][TruncateNext]_vars

\* C34: the turn-flag poller tolerates the truncation of the active session
\* file: after each poll that follows a truncation, every line appended to
\* the file since has been passed to processLine once, and the lines a poll
\* passes on are in file order.  (Files with a line on which processLine
\* throws are left aside.)
C34_AppendedAfterTruncationProcessed ==
    [][(PollOfSoundFile /\ ~lastEntry'.switched /\ stream.cut) =>
          /\ \A i \in 1..Len(files[activeSession]) :
                 files[activeSession][i].kind # "blank" => stream'.times[i] = 1
          /\ \A j \in 1..Len(delivered'), k \in 1..Len(delivered') :
                 j < k => delivered'[j] < delivered'[k]]_vars

\* -------------------------------------- run-correlation: order of forwards

\* C35: in the run-correlation daemon the forwards happen in the order of
\* the RunDone lines that triggered them, whatever the sends take: a trigger
\* is added by the step that processes its RunDone line, behind the earlier
\* ones; the k-th delayed lookup is the one of the k-th trigger; and a send
\* is made only by a lookup, one at a time, before the next lookup starts.
C35_ForwardsInTriggerOrder ==
    [][/\ triggers' # triggers =>
              /\ lastEntry'.kind = "done"
              /\ triggers' = Append(triggers, [runId |-> lastEntry'.run,
                                               sessionId |-> webchatRuns[lastEntry'.run]])
              /\ timers' = Append(timers, triggers'[Len(triggers')])
       /\ lastEntry'.kind = "timer" =>
              /\ Len(timers) > 0
              /\ lastEntry'.run = triggers[Len(triggers) - Len(timers) + 1].runId
              /\ timers' = Tail(timers)
       /\ sent' # sent =>
              /\ lastEntry'.kind = "timer"
              /\ Len(sent') = Len(sent) + 1
              /\ SubSeq(sent', 1, Len(sent)) = sent]_vars

\* two runs were done, the lookup of the first sent and the send failed, and
\* the lookup of the second has sent after it
C35_Witness ==
    /\ daemon = "run-correlation"
    /\ Len(triggers) = 2
    /\ triggers[1].runId # triggers[2].runId
    /\ timers = <<>>
    /\ Len(sent) = 2
    /\ ~sent[1].ok
    /\ lastEntry.kind = "timer"
    /\ lastEntry.run = triggers[2].runId

\* ------------------------- run-correlation: two runs on a shared session

\* the lines of the test 'interleaved webchat and telegram runs': a webchat
\* run and a telegram run on one session
InterleaveEntries ==
    { StartEntry(<<"r","1">>, <<"s","1">>, S_webchat),
      StartEntry(<<"r","2">>, <<"s","1">>, S_telegram),
      DoneEntry(<<"r","1">>, <<"s","1">>),
      DoneEntry(<<"r","2">>, <<"s","1">>) }

\* the reply a run writes to the transcript of its session
ReplyOf(r) == IF r = <<"r","1">> THEN T_done ELSE T_hello

\* path.join(SESSIONS_DIR, sessionId + '.jsonl'): the file of a session
SessionFile(sessionId) == IF sessionId = <<"s","1">> THEN "s1" ELSE "s2"

\* the agent appends the reply of the started run r to the transcript of
\* session s1, once; the line is kept with the run that wrote it
Run_WriteReply(r) ==
    /\ daemon = "run-correlation"
    /\ r \in DOMAIN startedOn
    /\ IF files["s1"] = "missing" THEN TRUE
       ELSE \A k \in 1..Len(files["s1"]) : files["s1"][k].run # r
    /\ LET reply == [line |-> TranscriptLine(S_assistant, <<TextPart(ReplyOf(r))>>),
                     run |-> r]
       IN files' = [files EXCEPT !["s1"] =
                       IF files["s1"] = "missing" THEN <<reply>>
                       ELSE Append(files["s1"], reply)]
    /\ lastEntry' = [kind |-> "reply", run |-> r, session |-> <<"s","1">>,
                     channel |-> <<>>, again |-> FALSE, tracked |-> FALSE,
                     known |-> FALSE, found |-> Null, by |-> r]
    /\ UNCHANGED <<currentSessionId, lastLineCount, activeSession, writes,
                   delivered, stream, prevUserIsWebchat, mirroredCache, sent,
                   threw, lastUser, runVars, logicVars>>

\* the oldest pending setTimeout callback runs and getLastAssistantText
\* reads the transcript of the trigger's session as it is at that moment;
\* by is the run that wrote the last line of the transcript
Run_TimerReads(ok) ==
    /\ daemon = "run-correlation"
    /\ Len(timers) > 0
    /\ LET lines == files[SessionFile(Head(timers).sessionId)]
           file == IF lines = "missing"
                   THEN [exists |-> FALSE, lines |-> <<>>]
                   ELSE File([k \in 1..Len(lines) |-> lines[k].line])
           text == getLastAssistantText(file)
           r == Run_lookup(mirroredCache, text, ok)
       IN /\ mirroredCache' = r.cache
          /\ sent' = sent \o r.out
          /\ lastEntry' = [kind |-> "lookup", run |-> Head(timers).runId,
                           session |-> Head(timers).sessionId,
                           channel |-> <<>>, again |-> FALSE,
                           tracked |-> FALSE, known |-> FALSE, found |-> text,
                           by |-> IF lines = "missing" THEN <<>>
                                  ELSE lines[Len(lines)].run]
    /\ timers' = Tail(timers)
    /\ UNCHANGED <<webchatRuns, processedRuns, triggers, threw,
                   currentLogDate, startedOn,
                   prevUserIsWebchat, lastUser, pollVars, logicVars>>

InterleaveNext ==
    \/ \E e \in InterleaveEntries : Run_ProcessLine(e)
    \/ \E r \in RunIds : Run_WriteReply(r)
    \/ \E ok \in BOOLEAN : Run_TimerReads(ok)

SpecInterleave == RunInit /\ [][InterleaveNext]_vars

\* C36: the text forwarded for a webchat run is the assistant text that run
\* produced: a lookup that sends, made when the transcript holds the reply
\* of the run of its trigger, sends that reply, also when another run on the
\* session has written its reply since.
C36_ForwardedTextIsOfTheRun ==
    [][(/\ lastEntry'.kind = "lookup"
        /\ sent' # sent
        /\ \E k \in 1..Len(files["s1"]) : files["s1"][k].run = lastEntry'.run) =>
          /\ lastEntry'.by = lastEntry'.run
          /\ sent'[Len(sent')].text = ReplyOf(lastEntry'.run)]_vars

\* ----------------------------- run-correlation: runs that are never done

\* the runs whose RunStart line was read so far: new ones come in the order
\* of their numbers
KnownStarts == Cardinality(DOMAIN startedOn)

\* the run-correlation daemon reads the RunStart line of run-n, a new run or
\* one of the first MaxRedelivered runs again
Pending_RunStart(n) ==
    /\ n = KnownStarts + 1 \/ (n <= MaxRedelivered /\ n <= KnownStarts)
    /\ Run_ProcessLine(NumberedStart[n])

\* the run-correlation daemon reads the RunDone line of run-n, one of the
\* first MaxRedelivered runs; the RunDone lines of the other runs never come
Pending_RunDone(n) ==
    /\ n <= MaxRedelivered
    /\ n <= KnownStarts
    /\ Run_ProcessLine(NumberedDone[n])

PendingNext ==
    \/ \E n \in 1..MaxRuns : Pending_RunStart(n)
    \/ \E n \in 1..MaxRuns : Pending_RunDone(n)
    \/ Cache_TimerFires

SpecPending == RunInit /\ [][PendingNext]_vars

\* C37: the number of entries of webchatRuns stays within a fixed bound
\* (the capacity PROCESSED_RUNS_MAX of the daemon's set of runs) under every
\* sequence of lines of one log file, RunStart lines whose RunDone never
\* comes and RunStart lines delivered again after their RunDone included.
C37_PendingRunsBounded ==
    Cardinality(DOMAIN webchatRuns) <= PROCESSED_RUNS_MAX

\* ------------------------------------------- turn-flag: the initial scan

\* C38: the flag the initial scan of a session switch computes is the flag
\* processLine holds after processing the lines of the file in order, for
\* user turns with array content and with plain-string content, and it is
\* false for a file without a user turn.
C38_ScanAgreesWithProcessLine ==
    lastEntry.kind = "initial scan" =>
        /\ lastEntry.flag = lastEntry.replayed
        /\ (\A i \in 1..Len(lastEntry.lines) :
                lastEntry.lines[i] \notin {"user", "user string"})
              => ~lastEntry.flag

\* the same for files whose user turns all have array content
ScanAgreesOnArrayContent ==
    (/\ lastEntry.kind = "initial scan"
     /\ \A i \in 1..Len(lastEntry.lines) : lastEntry.lines[i] # "user string")
        => /\ lastEntry.flag = lastEntry.replayed
           /\ (\A i \in 1..Len(lastEntry.lines) : lastEntry.lines[i] # "user")
                 => ~lastEntry.flag

\* ------------------------------------------- turn-flag: a rejected text

\* C39: a candidate rejected by the dedup check changes nothing: when an
\* assistant turn is processed with the flag set and its text is already in
\* mirroredCache, no send is made, the cache keeps its entries in their
\* order, the flag stays and processLine does not throw.
C39_DedupHitChangesNothing ==
    [][(/\ lastEntry'.kind = "assistant"
        /\ lastEntry'.text # <<>>
        /\ prevUserIsWebchat
        /\ CacheHas(mirroredCache, lastEntry'.text)) =>
          /\ UNCHANGED <<sent, mirroredCache, prevUserIsWebchat>>
          /\ ~threw']_vars

\* an assistant turn was processed with the flag set and was not sent: its
\* text is in the cache behind a text sent later
C39_Witness ==
    /\ daemon = "turn-flag"
    /\ lastEntry.kind = "assistant"
    /\ lastEntry.text # <<>>
    /\ prevUserIsWebchat
    /\ lastUser.origin = "webchat"
    /\ Len(sent) >= 2
    /\ sent[Len(sent)].text # lastEntry.text
    /\ CacheHas(mirroredCache, lastEntry.text)
    /\ mirroredCache[Len(mirroredCache)] # lastEntry.text

====
